---- MODULE Spec2Model ----
(***************************************************************************)
(* Recipe storage and import reconciliation of cook-anything               *)
(* (src/lib/storage.ts).  The recipe collection is one JSON array kept     *)
(* under a single localStorage key; every operation reads the array        *)
(* through getSavedRecipes (which sorts it), changes it and writes it      *)
(* back.                                                                   *)
(***************************************************************************)
EXTENDS Integers, Sequences, FiniteSets

\* ------------------------------------------------------------------ bounds
MaxStored == 2
MaxStoredWide == 3
MaxBatch == 2
MaxClock == 2
MaxTitle == 4
MaxZip == 4

\* --------------------------------------------------------- optional values
\* An optional field (slug?: string, savedAt?: string) is <<>> when it is
\* undefined and <<v>> when it carries v.
None == <<>>
Some(v) == <<v>>

\* ------------------------------------------------------------- generateSlug
\* Strings are sequences of one-character strings.
LowerCase == {"a", "b", "c"}
Digits == {"1"}
WhiteSpace == {" ", "\n"}
Hyphen == "-"

toLowerCase(c) ==
  CASE c = "A" -> "a"
    [] c = "B" -> "b"
    [] c = "C" -> "c"
    [] OTHER -> c

\* .toLowerCase() on a whole string
LowerString(s) == [i \in 1..Len(s) |-> toLowerCase(s[i])]

\* .replace(/[^a-z0-9\s-]/g, '')
IsKept(c) == c \in LowerCase \cup Digits \cup WhiteSpace \cup {Hyphen}
StripOthers(s) == SelectSeq(s, IsKept)

\* .replace(/\s+/g, '-'): every maximal run of whitespace becomes one hyphen
RECURSIVE SpacesToHyphen(_)
SpacesToHyphen(s) ==
  IF s = <<>> THEN <<>>
  ELSE IF Head(s) \in WhiteSpace
       THEN IF Len(s) > 1 /\ s[2] \in WhiteSpace
            THEN SpacesToHyphen(Tail(s))
            ELSE <<Hyphen>> \o SpacesToHyphen(Tail(s))
       ELSE <<Head(s)>> \o SpacesToHyphen(Tail(s))

\* .replace(/-+/g, '-'): every maximal run of hyphens becomes one hyphen
RECURSIVE CollapseHyphens(_)
CollapseHyphens(s) ==
  IF s = <<>> THEN <<>>
  ELSE IF Head(s) = Hyphen /\ Len(s) > 1 /\ s[2] = Hyphen
       THEN CollapseHyphens(Tail(s))
       ELSE <<Head(s)>> \o CollapseHyphens(Tail(s))

\* .trim(): removes leading and trailing whitespace (and nothing else)
RECURSIVE TrimLeft(_)
TrimLeft(s) ==
  IF s # <<>> /\ Head(s) \in WhiteSpace THEN TrimLeft(Tail(s)) ELSE s
RECURSIVE TrimRight(_)
TrimRight(s) ==
  IF s # <<>> /\ s[Len(s)] \in WhiteSpace
  THEN TrimRight(SubSeq(s, 1, Len(s) - 1))
  ELSE s
Trim(s) == TrimRight(TrimLeft(s))

generateSlug(title) ==
  Trim(CollapseHyphens(SpacesToHyphen(StripOthers(LowerString(title)))))

\* --------------------------------------------------------------- timestamps
\* A JavaScript number: an integer or NaN.
Num(v) == [nan |-> FALSE, v |-> v]
NaN == [nan |-> TRUE, v |-> 0]

\* A savedAt string is modelled by its written form and the instant it
\* denotes: "iso" is what Date.prototype.toISOString produces, "invalid" is
\* a string Date cannot parse.
toISOString(ms) == [form |-> "iso", ms |-> ms]
InvalidDate == [form |-> "invalid", ms |-> 0]

\* new Date(0).toISOString()
EpochString == toISOString(0)

\* new Date(s).getTime()
getTime(s) == IF s.form = "invalid" THEN NaN ELSE Num(s.ms)

\* r.savedAt ? new Date(r.savedAt).getTime() : 0
TimeOf(r) == IF r.savedAt = None THEN Num(0) ELSE getTime(r.savedAt[1])

\* a > b on numbers: false as soon as one side is NaN
NumGreater(a, b) == ~a.nan /\ ~b.nan /\ a.v > b.v

\* b - a on numbers
NumMinus(b, a) == IF a.nan \/ b.nan THEN NaN ELSE Num(b.v - a.v)

\* ------------------------------------------------------------------ recipes
\* A Recipe: title, optional slug, optional savedAt.  The title also stands
\* for the descriptive fields the storage layer never inspects.
Recipe(title, slug, savedAt) ==
  [title |-> title, slug |-> slug, savedAt |-> savedAt]

\* recipe.slug || generateSlug(recipe.title)
ResolveSlug(recipe) ==
  IF recipe.slug # None /\ recipe.slug[1] # <<>>
  THEN recipe.slug[1]
  ELSE generateSlug(recipe.title)

\* ------------------------------------------------------------- JavaScript values
\* A text is a sequence of tokens.  A token is one character, or a run of
\* characters that is never split: a word ("image"), a payload, or a tag.
Quote == "\""
BackSlash == "\\"
OpenTag == "<script type=\"application/json\" id=\"recipe-data\">"
OtherOpenTag == "<script id=\"recipe-data\" type=\"application/json\">"
CloseTag == "</script>"

\* What JSON.parse can build and JSON.stringify can write.
\* One record shape for every value: t is the typeof/kind, and the field of
\* that kind holds the content (s: the text of a string, n: a number or 0/1
\* for a boolean, items: the elements of an array, fields: the own properties
\* of an object, in insertion order, as <<key, value>>).
JsValue(t) == [t |-> t, s |-> <<>>, n |-> 0, items |-> <<>>, fields |-> <<>>]
JsString(s) == [JsValue("string") EXCEPT !.s = s]
JsNumber(n) == [JsValue("number") EXCEPT !.n = n]
JsBoolean(b) == [JsValue("boolean") EXCEPT !.n = IF b THEN 1 ELSE 0]
JsNull == JsValue("null")
JsArray(items) == [JsValue("array") EXCEPT !.items = items]
JsObject(fields) == [JsValue("object") EXCEPT !.fields = fields]

Key(name) == <<name>>

\* obj[key]: <<>> for undefined, <<value>> otherwise
RECURSIVE Lookup(_, _)
Lookup(fields, key) ==
  IF fields = <<>> THEN None
  ELSE IF Head(fields)[1] = key THEN Some(Head(fields)[2])
       ELSE Lookup(Tail(fields), key)

Get(value, key) ==
  IF value.t = "object" THEN Lookup(value.fields, key) ELSE None

\* !value: null, '', 0 and false are falsy (undefined is an absent property)
Falsy(value) ==
  CASE value.t = "null" -> TRUE
    [] value.t = "string" -> value.s = <<>>
    [] value.t = "number" -> value.n = 0
    [] value.t = "boolean" -> value.n = 0
    [] OTHER -> FALSE

\* { ...obj, [key]: value }: an existing key keeps its place
SetField(obj, key, value) ==
  IF Lookup(obj.fields, key) = None
  THEN JsObject(Append(obj.fields, <<key, value>>))
  ELSE JsObject([i \in 1..Len(obj.fields) |->
                   IF obj.fields[i][1] = key THEN <<key, value>> ELSE obj.fields[i]])

\* ---------------------------------------------------------------- JSON.stringify
\* The decimal form of the numbers in use
NumberTokens == {"0", "1", "2", "3", "4", "5", "6", "7", "8", "9"}
NumberToken(n) ==
  CASE n = 0 -> "0" [] n = 1 -> "1" [] n = 2 -> "2" [] n = 3 -> "3"
    [] n = 4 -> "4" [] n = 5 -> "5" [] n = 6 -> "6" [] n = 7 -> "7"
    [] n = 8 -> "8" [] n = 9 -> "9"

TokenNumber(tok) ==
  CHOOSE n \in 0..9 : NumberToken(n) = tok

\* Inside a string literal only the quote and the backslash are escaped
\* (control characters aside); '<' and '/' are written as they are.
RECURSIVE EscapeJson(_)
EscapeJson(s) ==
  IF s = <<>> THEN <<>>
  ELSE (IF Head(s) \in {Quote, BackSlash}
        THEN <<BackSlash, Head(s)>>
        ELSE <<Head(s)>>) \o EscapeJson(Tail(s))

StringLiteral(s) == <<Quote>> \o EscapeJson(s) \o <<Quote>>

\* JSON.stringify(value, null, 2); the indentation between tokens, which
\* JSON.parse skips, is not written out.
RECURSIVE Stringify(_)
RECURSIVE StringifyItems(_)
RECURSIVE StringifyFields(_)
Stringify(value) ==
  CASE value.t = "string" -> StringLiteral(value.s)
    [] value.t = "number" -> <<NumberToken(value.n)>>
    [] value.t = "boolean" -> <<IF value.n = 1 THEN "true" ELSE "false">>
    [] value.t = "null" -> <<"null">>
    [] value.t = "array" -> <<"[">> \o StringifyItems(value.items) \o <<"]">>
    [] value.t = "object" -> <<"{">> \o StringifyFields(value.fields) \o <<"}">>

StringifyItems(items) ==
  IF items = <<>> THEN <<>>
  ELSE Stringify(Head(items))
         \o (IF Len(items) > 1 THEN <<",">> \o StringifyItems(Tail(items))
             ELSE <<>>)

StringifyFields(fields) ==
  IF fields = <<>> THEN <<>>
  ELSE StringLiteral(Head(fields)[1]) \o <<":">> \o Stringify(Head(fields)[2])
         \o (IF Len(fields) > 1 THEN <<",">> \o StringifyFields(Tail(fields))
             ELSE <<>>)

\* -------------------------------------------------------------------- JSON.parse
\* A parse step: whether it succeeded, what it read, and the tokens left.
ParseFailure == [ok |-> FALSE, value |-> JsNull, rest |-> <<>>]
Parsed(value, rest) == [ok |-> TRUE, value |-> value, rest |-> rest]

\* The tokens of a string literal after its opening quote
RECURSIVE ParseString(_, _)
ParseString(toks, acc) ==
  IF toks = <<>> THEN ParseFailure
  ELSE IF Head(toks) = Quote THEN Parsed(acc, Tail(toks))
  ELSE IF Head(toks) = BackSlash
       THEN IF Len(toks) > 1 /\ toks[2] \in {Quote, BackSlash}
            THEN ParseString(SubSeq(toks, 3, Len(toks)), Append(acc, toks[2]))
            ELSE ParseFailure
       ELSE ParseString(Tail(toks), Append(acc, Head(toks)))

RECURSIVE ParseValue(_)
RECURSIVE ParseItems(_, _)
RECURSIVE ParseFields(_, _)
ParseValue(toks) ==
  IF toks = <<>> THEN ParseFailure
  ELSE LET h == Head(toks)
           rest == Tail(toks)
       IN CASE h = Quote ->
                 LET s == ParseString(rest, <<>>)
                 IN IF s.ok THEN Parsed(JsString(s.value), s.rest)
                    ELSE ParseFailure
            [] h = "[" ->
                 IF rest # <<>> /\ Head(rest) = "]"
                 THEN Parsed(JsArray(<<>>), Tail(rest))
                 ELSE ParseItems(rest, <<>>)
            [] h = "{" ->
                 IF rest # <<>> /\ Head(rest) = "}"
                 THEN Parsed(JsObject(<<>>), Tail(rest))
                 ELSE ParseFields(rest, <<>>)
            [] h = "null" -> Parsed(JsNull, rest)
            [] h = "true" -> Parsed(JsBoolean(TRUE), rest)
            [] h = "false" -> Parsed(JsBoolean(FALSE), rest)
            [] h \in NumberTokens -> Parsed(JsNumber(TokenNumber(h)), rest)
            [] OTHER -> ParseFailure

ParseItems(toks, acc) ==
  LET item == ParseValue(toks)
  IN IF ~item.ok \/ item.rest = <<>> THEN ParseFailure
     ELSE IF Head(item.rest) = ","
          THEN ParseItems(Tail(item.rest), Append(acc, item.value))
     ELSE IF Head(item.rest) = "]"
          THEN Parsed(JsArray(Append(acc, item.value)), Tail(item.rest))
     ELSE ParseFailure

ParseFields(toks, acc) ==
  IF toks = <<>> \/ Head(toks) # Quote THEN ParseFailure
  ELSE LET key == ParseString(Tail(toks), <<>>)
       IN IF ~key.ok \/ key.rest = <<>> \/ Head(key.rest) # ":"
          THEN ParseFailure
          ELSE LET field == ParseValue(Tail(key.rest))
               IN IF ~field.ok \/ field.rest = <<>> THEN ParseFailure
                  ELSE IF Head(field.rest) = ","
                       THEN ParseFields(Tail(field.rest),
                                        Append(acc, <<key.value, field.value>>))
                  ELSE IF Head(field.rest) = "}"
                       THEN Parsed(JsObject(Append(acc, <<key.value, field.value>>)),
                                   Tail(field.rest))
                  ELSE ParseFailure

\* A call either returns a value or throws.
Returns(value) == [status |-> "return", value |-> Some(value)]
ReturnsNull == [status |-> "return", value |-> None]
Throws == [status |-> "throw", value |-> None]

\* JSON.parse(text): the whole text must be one value, else SyntaxError
JSONparse(text) ==
  LET r == ParseValue(Trim(text))
  IN IF r.ok /\ r.rest = <<>> THEN Returns(r.value) ELSE Throws

\* ---------------------------------------------------------- getSavedRecipes
\* The comparator handed to Array.prototype.sort: dateB - dateA, where the
\* sort reads a NaN result as +0.
SortCompare(a, b) ==
  LET d == NumMinus(TimeOf(b), TimeOf(a))
  IN IF d.nan THEN 0 ELSE d.v

\* ECMAScript: the order is fixed (and stable) only for a consistent
\* comparator; elements comparing equal must form an equivalence class.
ConsistentComparator(recipes) ==
  \A i, j, k \in 1..Len(recipes) :
    /\ (SortCompare(recipes[i], recipes[j]) = 0
          /\ SortCompare(recipes[j], recipes[k]) = 0)
       => SortCompare(recipes[i], recipes[k]) = 0
    /\ (SortCompare(recipes[i], recipes[j]) < 0
          /\ SortCompare(recipes[j], recipes[k]) = 0)
       => SortCompare(recipes[i], recipes[k]) < 0

\* stable insertion: r goes before the first element that must follow it
RECURSIVE InsertSorted(_, _)
InsertSorted(sorted, r) ==
  IF sorted = <<>> THEN <<r>>
  ELSE IF SortCompare(Head(sorted), r) > 0
       THEN <<r>> \o sorted
       ELSE <<Head(sorted)>> \o InsertSorted(Tail(sorted), r)

RECURSIVE StableSort(_)
StableSort(recipes) ==
  IF recipes = <<>> THEN <<>>
  ELSE InsertSorted(StableSort(SubSeq(recipes, 1, Len(recipes) - 1)),
                    recipes[Len(recipes)])

Reorderings(recipes) ==
  LET n == Len(recipes)
      Bij == {p \in [1..n -> 1..n] : \A i, j \in 1..n : p[i] = p[j] => i = j}
  IN {[i \in 1..n |-> recipes[p[i]]] : p \in Bij}

\* recipes.sort(...): newest first; with an inconsistent comparator (a NaN
\* time next to two different times) the order is implementation-defined.
SortOutcomes(recipes) ==
  IF ConsistentComparator(recipes)
  THEN {StableSort(recipes)}
  ELSE Reorderings(recipes)

\* The raw value under RECIPES_STORAGE_KEY: absent, the JSON text of an array
\* of recipes (kept as the array it parses to), or any other text.
AbsentStorage == [kind |-> "absent", recipes |-> <<>>, text |-> <<>>]
StoredArray(recipes) == [kind |-> "array", recipes |-> recipes, text |-> <<>>]
StoredText(text) == [kind |-> "text", recipes |-> <<>>, text |-> text]

\* The try block on a text that holds no recipes: JSON.parse(stored) throws a
\* SyntaxError, or recipes.sort throws a TypeError when the value is not an
\* array; entries without savedAt all compare equal and keep their order.
ParseAndSort(stored) ==
  LET parsed == JSONparse(stored)
  IN IF parsed.status = "throw" THEN Throws
     ELSE IF parsed.value[1].t # "array" THEN Throws
     ELSE Returns(parsed.value[1].items)

\* Variant: no try/catch around the parse and the sort.
getSavedRecipesFromTextUncaught(stored) ==
  IF stored = <<>> THEN Returns(<<>>) ELSE ParseAndSort(stored)

\* if (!stored) return []; try { ... } catch { return [] }
getSavedRecipesFromText(stored) ==
  IF stored = <<>> THEN Returns(<<>>)
  ELSE IF ParseAndSort(stored).status = "throw" THEN Returns(<<>>)
  ELSE ParseAndSort(stored)

\* getSavedRecipes() as a call: every way it can end for this raw value
getSavedRecipesCall(storage) ==
  CASE storage.kind = "absent" -> {Returns(<<>>)}
    [] storage.kind = "array" -> {Returns(r) : r \in SortOutcomes(storage.recipes)}
    [] storage.kind = "text" -> {getSavedRecipesFromText(storage.text)}

\* getSavedRecipes(): every array the call can return for this raw value
getSavedRecipes(storage) ==
  {o.value[1] : o \in {c \in getSavedRecipesCall(storage) : c.status = "return"}}

\* recipes.findIndex((r) => r.slug === slug), 1-based, 0 when not found
RECURSIVE findIndex(_, _)
findIndex(recipes, slug) ==
  IF recipes = <<>> THEN 0
  ELSE IF Head(recipes).slug = Some(slug) THEN 1
       ELSE LET rest == findIndex(Tail(recipes), slug)
            IN IF rest = 0 THEN 0 ELSE rest + 1

\* recipes.find((r) => r.slug === slug) || null
find(recipes, slug) ==
  LET i == findIndex(recipes, slug)
  IN IF i = 0 THEN None ELSE Some(recipes[i])

\* getRecipeBySlug(slug): every value the call can return
getRecipeBySlug(storage, slug) ==
  {find(recipes, slug) : recipes \in getSavedRecipes(storage)}

\* ------------------------------------------------------------------ inputs
\* Instants: before the epoch, the epoch, a reading of the local clock, and
\* one the local clock has not reached (a file from a device running ahead).
TimeValues == {0 - 1, 0, MaxClock, MaxClock + 1}

TitleA == <<"A", " ", "b">>
TitleC == <<"C", "!">>
SlugAB == <<"a", "-", "b">>
Titles == {TitleA, TitleC}
TitleSlugInputs == {<<TitleA, None>>, <<TitleC, None>>, <<TitleC, Some(SlugAB)>>}
SavedAtInputs ==
  {None, Some(InvalidDate)} \cup {Some(toISOString(t)) : t \in TimeValues}

RecipeInputs ==
  {Recipe(ts[1], ts[2], a) : ts \in TitleSlugInputs, a \in SavedAtInputs}

\* saveRecipe overwrites savedAt, so one incoming value is enough
SaveInputs == {r \in RecipeInputs : r.savedAt \in {None, Some(toISOString(0))}}

Slugs == {ResolveSlug(r) : r \in RecipeInputs}

\* Partial<Recipe>: each field is either absent or carries a new value
NoUpdates == [title |-> None, slug |-> None, savedAt |-> None]
UpdateInputs ==
  {[title |-> t, slug |-> s, savedAt |-> a] :
     t \in {None, Some(TitleC)},
     s \in {None} \cup {Some(x) : x \in Slugs},
     a \in {None, Some(toISOString(0))}}

\* Batches: recipes without savedAt, with an unparseable one, stamped at a
\* reading of the local clock, and stamped ahead of it.
BatchRecipeInputs ==
  {r \in RecipeInputs :
     r.savedAt \in {None, Some(InvalidDate), Some(toISOString(MaxClock)),
                    Some(toISOString(MaxClock + 1))}}
BatchInputs == UNION {[1..n -> BatchRecipeInputs] : n \in 0..MaxBatch}

\* ------------------------------------------------------------------- state
VARIABLES
  localStorage,   \* raw value under RECIPES_STORAGE_KEY
  clock,          \* what new Date() reads, in milliseconds
  exported,       \* the copy of a stored recipe held in an exported file
  edited,         \* the exported recipe was saved/updated locally since
  last,           \* the last call: its arguments, its result, the storage before
  evaluation,     \* a library function under evaluation: its input and output
  tabs,           \* the browser tabs open on the storage: where each one is in its call
  wakeLock        \* a useWakeLock hook instance and the sentinels the browser gave it

vars == <<localStorage, clock, exported, edited, last, evaluation, tabs, wakeLock>>

\* No library function is under evaluation.
NoEvaluation == [fn |-> "none"]

\* One tab drives the storage; no second tab is open.
NoTabs == [writer |-> 0]

\* No component using useWakeLock is rendered.
NoHook == [mounted |-> FALSE, isSupported |-> FALSE]

EmptyResult == [added |-> <<>>, updated |-> <<>>, skipped |-> <<>>]

Call(op) ==
  [op |-> op, recipe |-> None, batch |-> <<>>, slug |-> None,
   updates |-> NoUpdates, action |-> "", result |-> EmptyResult,
   returned |-> None, existing |-> None, before |-> localStorage,
   now |-> clock]

\* The storage calls are synchronous: a call runs to completion and hands its
\* result to its caller before the next call starts.
NoCall == [Call("idle") EXCEPT !.before = AbsentStorage, !.now = 0]
Idle == last = NoCall

Init ==
  /\ localStorage = AbsentStorage
  /\ clock = 1
  /\ exported = None
  /\ edited = FALSE
  /\ last = NoCall
  /\ tabs = NoTabs
  /\ wakeLock = NoHook
  /\ evaluation = NoEvaluation

Return ==
  /\ ~Idle
  /\ last' = NoCall
  /\ UNCHANGED <<localStorage, clock, exported, edited, evaluation, tabs, wakeLock>>

\* The clock never goes backwards; two calls may read the same millisecond.
Tick ==
  /\ Idle
  /\ clock < MaxClock
  /\ clock' = clock + 1
  /\ UNCHANGED <<localStorage, exported, edited, last, evaluation, tabs, wakeLock>>

\* localStorage.setItem(RECIPES_STORAGE_KEY, JSON.stringify(recipes))
setItem(recipes) == StoredArray(recipes)

ExportedSlug == IF exported = None THEN None ELSE exported[1].slug

\* ---------------------------------------------------------------- saveRecipe
SavedRecipe(recipe, now) ==
  [recipe EXCEPT !.slug = Some(ResolveSlug(recipe)),
                 !.savedAt = Some(toISOString(now))]

saveRecipeOn(recipes, recipe, now) ==
  LET savedRecipe == SavedRecipe(recipe, now)
      existingIndex == findIndex(recipes, ResolveSlug(recipe))
  IN IF existingIndex >= 1
     THEN [recipes EXCEPT ![existingIndex] = savedRecipe]
     ELSE <<savedRecipe>> \o recipes

saveRecipe(recipe) ==
  /\ Idle
  /\ UNCHANGED <<evaluation, tabs, wakeLock>>
  /\ \E recipes \in getSavedRecipes(localStorage) :
      LET written == saveRecipeOn(recipes, recipe, clock)
      IN /\ localStorage' = setItem(written)
         /\ last' = [Call("saveRecipe") EXCEPT
                       !.recipe = Some(recipe),
                       !.existing = find(recipes, ResolveSlug(recipe)),
                       !.returned = Some(SavedRecipe(recipe, clock))]
         /\ edited' = (edited \/ (exported # None
                                   /\ ExportedSlug = Some(ResolveSlug(recipe))
                                   /\ find(recipes, ResolveSlug(recipe)) # None))
         /\ UNCHANGED <<clock, exported>>

\* -------------------------------------------------------------- deleteRecipe
\* Variant: recipes.splice(recipes.findIndex(...), 1), one entry at most.
deleteRecipeOnFirst(recipes, slug) ==
  LET i == findIndex(recipes, slug)
  IN IF i = 0 THEN recipes
     ELSE SubSeq(recipes, 1, i - 1) \o SubSeq(recipes, i + 1, Len(recipes))

\* recipes.filter((r) => r.slug !== slug)
deleteRecipeOn(recipes, slug) ==
  SelectSeq(recipes, LAMBDA r : r.slug # Some(slug))

deleteRecipe(slug) ==
  /\ Idle
  /\ UNCHANGED <<evaluation, tabs, wakeLock>>
  /\ \E recipes \in getSavedRecipes(localStorage) :
      /\ localStorage' = setItem(deleteRecipeOn(recipes, slug))
      /\ last' = [Call("deleteRecipe") EXCEPT
                    !.slug = Some(slug), !.existing = find(recipes, slug)]
      /\ IF ExportedSlug = Some(slug)
         THEN exported' = None /\ edited' = FALSE
         ELSE UNCHANGED <<exported, edited>>
      /\ UNCHANGED clock

\* -------------------------------------------------------------- updateRecipe
\* Variant: { ...recipes[index], savedAt: new Date().toISOString(), ...updates }
UpdatedRecipeUpdatesLast(old, updates, now) ==
  [title |-> IF updates.title = None THEN old.title ELSE updates.title[1],
   slug |-> IF updates.slug = None THEN old.slug ELSE updates.slug,
   savedAt |-> IF updates.savedAt = None
               THEN Some(toISOString(now))
               ELSE updates.savedAt]

\* { ...recipes[index], ...updates, savedAt: new Date().toISOString() }
UpdatedRecipe(old, updates, now) ==
  [title |-> IF updates.title = None THEN old.title ELSE updates.title[1],
   slug |-> IF updates.slug = None THEN old.slug ELSE updates.slug,
   savedAt |-> Some(toISOString(now))]

updateRecipeOn(recipes, slug, updates, now) ==
  LET index == findIndex(recipes, slug)
  IN [recipes EXCEPT ![index] = UpdatedRecipe(recipes[index], updates, now)]

updateRecipe(slug, updates) ==
  /\ Idle
  /\ UNCHANGED <<evaluation, tabs, wakeLock>>
  /\ \E recipes \in getSavedRecipes(localStorage) :
      LET index == findIndex(recipes, slug)
      IN IF index < 1
         THEN /\ last' = [Call("updateRecipe") EXCEPT
                            !.slug = Some(slug), !.updates = updates]
              /\ UNCHANGED <<localStorage, clock, exported, edited>>
         ELSE /\ localStorage' = setItem(updateRecipeOn(recipes, slug, updates, clock))
              /\ last' = [Call("updateRecipe") EXCEPT
                            !.slug = Some(slug), !.updates = updates,
                            !.existing = Some(recipes[index]),
                            !.returned =
                              Some(UpdatedRecipe(recipes[index], updates, clock))]
              /\ IF ExportedSlug = Some(slug)
                 THEN IF updates.slug \in {None, Some(slug)}
                      THEN edited' = TRUE /\ UNCHANGED exported
                      ELSE exported' = None /\ edited' = FALSE
                 ELSE UNCHANGED <<exported, edited>>
              /\ UNCHANGED clock

\* -------------------------------------------------------------- importRecipe
\* Variant: the import stamps the current time, as saveRecipe does.
ImportedRecipeStamped(recipe) ==
  [recipe EXCEPT !.slug = Some(ResolveSlug(recipe)),
                 !.savedAt = Some(toISOString(clock))]

\* { ...recipe, slug, savedAt: recipe.savedAt || new Date(0).toISOString() }
ImportedRecipe(recipe) ==
  [recipe EXCEPT !.slug = Some(ResolveSlug(recipe)),
                 !.savedAt = IF recipe.savedAt # None
                             THEN recipe.savedAt
                             ELSE Some(EpochString)]

\* Variant: importedTime >= existingTime, a tie replaces the local copy.
ImportedIsNewerOrSame(imported, existing) ==
  LET a == TimeOf(imported)
      b == TimeOf(existing)
  IN ~a.nan /\ ~b.nan /\ a.v >= b.v

\* Variant: no reconciliation, the imported recipe always replaces the stored one.
ImportedIsNewerAlways(imported, existing) == TRUE

\* importedTime > existingTime
ImportedIsNewer(imported, existing) ==
  NumGreater(TimeOf(imported), TimeOf(existing))

\* Variant: a new recipe is written as the whole collection.
importRecipeOnAlone(recipes, recipe) ==
  LET importedRecipe == ImportedRecipe(recipe)
      existingIndex == findIndex(recipes, ResolveSlug(recipe))
  IN IF existingIndex < 1
     THEN [action |-> "added", wrote |-> TRUE,
           recipes |-> <<importedRecipe>>, existing |-> None]
     ELSE IF ImportedIsNewer(importedRecipe, recipes[existingIndex])
          THEN [action |-> "updated", wrote |-> TRUE,
                recipes |-> [recipes EXCEPT ![existingIndex] = importedRecipe],
                existing |-> Some(recipes[existingIndex])]
          ELSE [action |-> "skipped", wrote |-> FALSE,
                recipes |-> recipes,
                existing |-> Some(recipes[existingIndex])]

\* One call on the array getSavedRecipes returned: the ImportAction, whether
\* setItem ran, and the array written.
importRecipeOn(recipes, recipe) ==
  LET importedRecipe == ImportedRecipe(recipe)
      existingIndex == findIndex(recipes, ResolveSlug(recipe))
  IN IF existingIndex < 1
     THEN [action |-> "added", wrote |-> TRUE,
           recipes |-> <<importedRecipe>> \o recipes, existing |-> None]
     ELSE IF ImportedIsNewer(importedRecipe, recipes[existingIndex])
          THEN [action |-> "updated", wrote |-> TRUE,
                recipes |-> [recipes EXCEPT ![existingIndex] = importedRecipe],
                existing |-> Some(recipes[existingIndex])]
          ELSE [action |-> "skipped", wrote |-> FALSE,
                recipes |-> recipes,
                existing |-> Some(recipes[existingIndex])]

\* Every outcome of importRecipe(recipe) on a raw storage value
importRecipeOutcomes(storage, recipe) ==
  {LET o == importRecipeOn(recipes, recipe)
   IN [action |-> o.action, existing |-> o.existing,
       storage |-> IF o.wrote THEN setItem(o.recipes) ELSE storage] :
     recipes \in getSavedRecipes(storage)}

StoredCount(storage) == Len(storage.recipes)

importRecipe(recipe) ==
  /\ Idle
  /\ UNCHANGED <<evaluation, tabs, wakeLock>>
  /\ \E o \in importRecipeOutcomes(localStorage, recipe) :
      /\ localStorage' = o.storage
      /\ last' = [Call("importRecipe") EXCEPT
                    !.recipe = Some(recipe), !.action = o.action,
                    !.existing = o.existing]
      /\ UNCHANGED <<clock, exported, edited>>

\* ------------------------------------------------------------- previewImport
\* Variant: result[bucket].unshift(recipe)
Unshift(result, bucket, recipe) ==
  [result EXCEPT ![bucket] = <<recipe>> \o result[bucket]]

\* result[bucket].push(recipe)
Push(result, bucket, recipe) ==
  [result EXCEPT ![bucket] = Append(result[bucket], recipe)]

PreviewBucket(existingRecipes, recipe) ==
  LET existing == find(existingRecipes, ResolveSlug(recipe))
  IN IF existing = None THEN "added"
     ELSE IF NumGreater(TimeOf(recipe), TimeOf(existing[1])) THEN "updated"
          ELSE "skipped"

RECURSIVE previewImportOn(_, _, _)
previewImportOn(existingRecipes, recipesToImport, result) ==
  IF recipesToImport = <<>> THEN result
  ELSE previewImportOn(
         existingRecipes, Tail(recipesToImport),
         Push(result, PreviewBucket(existingRecipes, Head(recipesToImport)),
              Head(recipesToImport)))

\* Variant: the preview writes back the sorted array it read.
previewImportStorageWritten(storage, existingRecipes, recipesToImport) ==
  setItem(existingRecipes)

\* What previewImport leaves under the storage key: it never calls setItem.
previewImportStorage(storage, existingRecipes, recipesToImport) == storage

previewImport(recipesToImport) ==
  /\ Idle
  /\ UNCHANGED <<evaluation, tabs, wakeLock>>
  /\ \E existingRecipes \in getSavedRecipes(localStorage) :
      /\ localStorage' =
           previewImportStorage(localStorage, existingRecipes, recipesToImport)
      /\ last' = [Call("previewImport") EXCEPT
                    !.batch = recipesToImport,
                    !.result =
                      previewImportOn(existingRecipes, recipesToImport, EmptyResult)]
      /\ UNCHANGED <<clock, exported, edited>>

\* ------------------------------------------------------------- importRecipes
\* Variant: every recipe of the batch is judged against the array read before
\* the loop (a snapshot); the writes still happen one after the other.
RECURSIVE importRecipesOnSnapshot(_, _, _, _)
importRecipesOnSnapshot(existingRecipes, storage, recipesToImport, result) ==
  IF recipesToImport = <<>>
  THEN {[storage |-> storage, result |-> result]}
  ELSE UNION {importRecipesOnSnapshot(
                existingRecipes, o.storage, Tail(recipesToImport),
                Push(result, PreviewBucket(existingRecipes, Head(recipesToImport)),
                     Head(recipesToImport))) :
                o \in importRecipeOutcomes(storage, Head(recipesToImport))}

importRecipesOutcomesSnapshot(storage, recipesToImport, result) ==
  UNION {importRecipesOnSnapshot(existingRecipes, storage, recipesToImport, result) :
           existingRecipes \in getSavedRecipes(storage)}

\* for (const recipe of recipesToImport) result[importRecipe(recipe)].push(recipe)
RECURSIVE importRecipesOutcomes(_, _, _)
importRecipesOutcomes(storage, recipesToImport, result) ==
  IF recipesToImport = <<>>
  THEN {[storage |-> storage, result |-> result]}
  ELSE UNION {importRecipesOutcomes(
                o.storage, Tail(recipesToImport),
                Push(result, o.action, Head(recipesToImport))) :
                o \in importRecipeOutcomes(storage, Head(recipesToImport))}

importRecipes(recipesToImport) ==
  /\ Idle
  /\ UNCHANGED <<evaluation, tabs, wakeLock>>
  /\ \E o \in importRecipesOutcomes(localStorage, recipesToImport, EmptyResult) :
      /\ localStorage' = o.storage
      /\ last' = [Call("importRecipes") EXCEPT
                    !.batch = recipesToImport, !.result = o.result]
      /\ UNCHANGED <<clock, exported, edited>>

\* -------------------------------------------------------------------- export
\* A stored recipe is written to a file (its slug and savedAt included) that
\* can be imported again later.
exportRecipe(slug) ==
  /\ Idle
  /\ UNCHANGED <<evaluation, tabs, wakeLock>>
  /\ \E recipes \in getSavedRecipes(localStorage) :
      /\ find(recipes, slug) # None
      /\ exported' = find(recipes, slug)
      /\ edited' = FALSE
      /\ last' = [Call("exportRecipe") EXCEPT
                    !.slug = Some(slug), !.existing = find(recipes, slug)]
      /\ UNCHANGED <<localStorage, clock>>

\* ------------------------------------------------------------------ recipe-export
\* escapeHtml: & < > " ' become character references
EscapeHtmlToken(c) ==
  CASE c = "&" -> "&amp;"
    [] c = "<" -> "&lt;"
    [] c = ">" -> "&gt;"
    [] c = Quote -> "&quot;"
    [] c = "'" -> "&#39;"
    [] c = CloseTag -> "&lt;/script&gt;"
    [] c = OpenTag ->
         "&lt;script type=&quot;application/json&quot; id=&quot;recipe-data&quot;&gt;"
    [] c = OtherOpenTag ->
         "&lt;script id=&quot;recipe-data&quot; type=&quot;application/json&quot;&gt;"
    [] OTHER -> c

escapeHtml(str) == [i \in 1..Len(str) |-> EscapeHtmlToken(str[i])]

ImagePlaceholder ==
  JsObject(<< <<Key("type"), JsString(<<"image">>)>>,
              <<Key("text"), JsString(<<"[image]">>)>> >>)

\* Variant: the placeholder keeps the mimeType of the image it replaces.
StripContentKeepsMimeType(content) ==
  IF Get(content, Key("type")) = Some(JsString(<<"image">>))
  THEN JsObject(ImagePlaceholder.fields
                \o << <<Key("mimeType"), Get(content, Key("mimeType"))[1]>> >>)
  ELSE content

\* content.type === 'image' ? { type: 'image', text: '[image]' } : content
StripContent(content) ==
  IF Get(content, Key("type")) = Some(JsString(<<"image">>))
  THEN ImagePlaceholder
  ELSE content

\* one message of stripImagesFromConversation
StripMessage(message) ==
  LET content == Get(message, Key("content"))[1]
  IN IF content.t = "string" THEN message
     ELSE SetField(message, Key("content"),
                   JsArray([i \in 1..Len(content.items) |-> StripContent(content.items[i])]))

stripImagesFromConversation(messages) ==
  [i \in 1..Len(messages) |-> StripMessage(messages[i])]

prepareRecipeForExport(recipe) ==
  LET history == Get(recipe, Key("conversationHistory"))
  IN IF history = None THEN recipe
     ELSE SetField(recipe, Key("conversationHistory"),
                   JsArray(stripImagesFromConversation(history[1].items)))

\* String(value) for a number or a string
String(value) ==
  IF value.t = "number" THEN <<NumberToken(value.n)>> ELSE value.s

\* getTypeStyles()[type]: the colours of a step type, <<>> (undefined) for a
\* type that has none
typeStyles(type) ==
  CASE type = <<"prep">> ->
         Some([bg |-> "#eff6ff", border |-> "#bfdbfe", badge |-> "#dbeafe",
               text |-> "#1d4ed8"])
    [] type = <<"cook">> ->
         Some([bg |-> "#fff7ed", border |-> "#fed7aa", badge |-> "#ffedd5",
               text |-> "#c2410c"])
    [] type = <<"rest">> ->
         Some([bg |-> "#faf5ff", border |-> "#e9d5ff", badge |-> "#f3e8ff",
               text |-> "#7c3aed"])
    [] OTHER -> None

\* step.ingredients.map((ing) => `<span ...>${escapeHtml(ing)}</span>`).join('')
RECURSIVE JoinIngredients(_)
JoinIngredients(ingredients) ==
  IF ingredients = <<>> THEN <<>>
  ELSE <<"<span class=ingredient>">> \o escapeHtml(Head(ingredients).s)
         \o <<"</span>">> \o JoinIngredients(Tail(ingredients))

\* One step card: the colours of its type, then the step number, the type,
\* the timer when it is positive, the instruction and the ingredients, each
\* through escapeHtml
StepHtml(step) ==
  LET style == typeStyles(Get(step, Key("type"))[1].s)[1]
      timerMinutes == Get(step, Key("timerMinutes"))[1]
      ingredients == Get(step, Key("ingredients"))[1].items
  IN <<"<div class=step style=", style.bg, style.border,
       "<div class=number style=", style.badge, style.text>>
       \o escapeHtml(String(Get(step, Key("stepNumber"))[1]))
       \o <<"</div>", "<span class=type style=", style.badge, style.text>>
       \o escapeHtml(Get(step, Key("type"))[1].s)
       \o <<"</span>">>
       \o (IF timerMinutes.n > 0
           THEN <<"<span class=timer>">> \o escapeHtml(String(timerMinutes))
                  \o <<" min", "</span>">>
           ELSE <<>>)
       \o <<"<p>">> \o escapeHtml(Get(step, Key("instruction"))[1].s) \o <<"</p>">>
       \o (IF Len(ingredients) > 0
           THEN <<"<div class=ingredients>">> \o JoinIngredients(ingredients)
                  \o <<"</div>">>
           ELSE <<>>)
       \o <<"</div>">>

RECURSIVE JoinSteps(_)
JoinSteps(steps) ==
  IF steps = <<>> THEN <<>> ELSE StepHtml(Head(steps)) \o JoinSteps(Tail(steps))

\* A parallel group is a dashed box around its cards; the steps of a
\* sequential group follow one another
GroupHtml(group) ==
  LET steps == Get(group, Key("steps"))[1].items
  IN IF ~Falsy(Get(group, Key("parallel"))[1])
     THEN <<"<div class=parallel>">> \o JoinSteps(steps) \o <<"</div>">>
     ELSE JoinSteps(steps)

RECURSIVE JoinGroups(_)
JoinGroups(groups) ==
  IF groups = <<>> THEN <<>>
  ELSE GroupHtml(Head(groups)) \o JoinGroups(Tail(groups))

generateStepsHtml(recipe) == JoinGroups(Get(recipe, Key("flowGroups"))[1].items)

\* style.bg on a step whose type has no colours throws a TypeError
StepsThrow(recipe) ==
  \E i \in 1..Len(Get(recipe, Key("flowGroups"))[1].items) :
    LET steps == Get(Get(recipe, Key("flowGroups"))[1].items[i], Key("steps"))[1].items
    IN \E j \in 1..Len(steps) : typeStyles(Get(steps[j], Key("type"))[1].s) = None

\* The document: the escaped title, the recipe-data script holding the JSON
\* of the exportable recipe, then the visible page.
generateRecipeHtml(recipe) ==
  LET title == Get(recipe, Key("title"))[1].s
      servings == Get(recipe, Key("servings"))
  IN <<"<title>">> \o escapeHtml(title) \o <<"</title>", OpenTag, "\n">>
       \o Stringify(prepareRecipeForExport(recipe))
       \o <<"\n", " ", " ", CloseTag, "<h1>">> \o escapeHtml(title) \o <<"</h1>">>
       \o (IF servings # None /\ ~Falsy(servings[1])
           THEN <<"<div class=servings>">> \o escapeHtml(String(servings[1]))
                  \o <<"</div>">>
           ELSE <<>>)
       \o generateStepsHtml(recipe)

\* index of the first token equal to tok at or after position from, 0 if none
IndexFrom(html, tok, from) ==
  LET hits == {i \in from..Len(html) : html[i] = tok}
  IN IF hits = {} THEN 0 ELSE CHOOSE i \in hits : \A j \in hits : i <= j

\* html.match(/<script\s+type="application\/json"\s+id="recipe-data">
\*              \s*([\s\S]*?)\s*<\/script>/): the capture group, or <<>> for
\* no match.  The group is lazy, so it ends before the first closing tag.
ScriptMatch(html) ==
  LET open == IndexFrom(html, OpenTag, 1)
      close == IF open = 0 THEN 0 ELSE IndexFrom(html, CloseTag, open + 1)
  IN IF close = 0 THEN None
     ELSE Some(Trim(SubSeq(html, open + 1, close - 1)))

\* Variant: the validation asks for a title only.
ValidRecipeTitleOnly(recipe) ==
  IF recipe.t = "null" THEN Throws
  ELSE LET title == Get(recipe, Key("title"))
       IN Returns(title # None /\ ~Falsy(title[1]))

\* recipe.title && Array.isArray(recipe.flowGroups); reading a property of
\* null throws a TypeError
ValidRecipe(recipe) ==
  IF recipe.t = "null" THEN Throws
  ELSE LET title == Get(recipe, Key("title"))
           flowGroups == Get(recipe, Key("flowGroups"))
       IN Returns(/\ title # None
                  /\ ~Falsy(title[1])
                  /\ flowGroups # None
                  /\ flowGroups[1].t = "array")

\* The body of the try block
parseRecipeFromHtmlTry(html) ==
  LET scriptMatch == ScriptMatch(html)
  IN IF scriptMatch = None \/ scriptMatch[1] = <<>> THEN ReturnsNull
     ELSE LET recipe == JSONparse(Trim(scriptMatch[1]))
          IN IF recipe.status = "throw" THEN Throws
             ELSE LET valid == ValidRecipe(recipe.value[1])
                  IN IF valid.status = "throw" THEN Throws
                     ELSE IF ~valid.value[1] THEN ReturnsNull
                     ELSE Returns(recipe.value[1])

\* try { ... } catch { return null; }
parseRecipeFromHtml(html) ==
  LET body == parseRecipeFromHtmlTry(html)
  IN IF body.status = "throw" THEN ReturnsNull ELSE body

\* Variant: recipe.slug || generateSlug(recipe.title), then '.html'
generateExportFilenameSlugified(recipe) ==
  LET slug == Get(recipe, Key("slug"))
      title == Get(recipe, Key("title"))[1].s
  IN (IF slug # None /\ ~Falsy(slug[1])
      THEN slug[1].s
      ELSE generateSlug(title)) \o <<".html">>

\* recipe.slug || recipe.title.toLowerCase().replace(/\s+/g, '-'), then '.html'
generateExportFilename(recipe) ==
  LET slug == Get(recipe, Key("slug"))
      title == Get(recipe, Key("title"))[1].s
  IN (IF slug # None /\ ~Falsy(slug[1])
      THEN slug[1].s
      ELSE SpacesToHyphen(LowerString(title))) \o <<".html">>

\* ------------------------------------------------------------ export inputs
TextPlain == <<"a">>
TextQuoted == <<"a", Quote, BackSlash>>
TextClosing == <<"a", CloseTag>>
TextOpening == <<OpenTag, "<", "&">>
ExportTitles == {TitleA, TitleC, TextQuoted, TextClosing, TextOpening}

Payloads == {"QUJD", "REVG"}
MimeTypes == {"image/png", "image/jpeg"}

Optional(name, opt) == IF opt = None THEN <<>> ELSE << <<Key(name), opt[1]>> >>

Step(stepNumber, type, instruction, ingredients, timerMinutes) ==
  JsObject(<< <<Key("stepNumber"), stepNumber>>,
              <<Key("type"), JsString(type)>>,
              <<Key("instruction"), JsString(instruction)>>,
              <<Key("ingredients"),
                JsArray([i \in 1..Len(ingredients) |-> JsString(ingredients[i])])>>,
              <<Key("timerMinutes"), timerMinutes>> >>)
StepObject(instruction) ==
  Step(JsNumber(1), <<"prep">>, instruction, <<>>, JsNumber(0))
GroupObject(parallel, steps) ==
  JsObject(<< <<Key("parallel"), JsBoolean(parallel)>>,
              <<Key("steps"), JsArray(steps)>> >>)
TextContent(text) ==
  JsObject(<< <<Key("type"), JsString(<<"text">>)>>,
              <<Key("text"), JsString(text)>> >>)
ImageContent(image, mimeType) ==
  JsObject(<< <<Key("type"), JsString(<<"image">>)>>,
              <<Key("image"), JsString(<<image>>)>>,
              <<Key("mimeType"), JsString(<<mimeType>>)>> >>)
MessageObject(role, content) ==
  JsObject(<< <<Key("role"), JsString(<<role>>)>>,
              <<Key("content"), content>> >>)

RecipeObject(title, slug, savedAt, servings, servingsCount, flowGroups, history) ==
  JsObject(<< <<Key("title"), JsString(title)>> >>
           \o Optional("servings", servings)
           \o Optional("servingsCount", servingsCount)
           \o << <<Key("flowGroups"), JsArray(flowGroups)>> >>
           \o Optional("slug", slug)
           \o Optional("savedAt", savedAt)
           \o Optional("conversationHistory", history))

FlowGroupInputs ==
  {<<>>,
   <<GroupObject(TRUE, <<StepObject(TextPlain), StepObject(TextQuoted)>>)>>,
   <<GroupObject(FALSE, <<StepObject(TextClosing)>>)>>}

PlainHistoryInputs ==
  {None, Some(JsArray(<<>>)),
   Some(JsArray(<<MessageObject("user", JsString(TextQuoted))>>))}

ImageHistory(image, mimeType) ==
  JsArray(<<MessageObject("user",
              JsArray(<<TextContent(TextPlain), ImageContent(image, mimeType)>>)),
            MessageObject("assistant", JsString(TextPlain))>>)

ImageHistoryInputs ==
  {Some(ImageHistory(p, m)) : p \in Payloads, m \in MimeTypes}

ExportInputs ==
  {RecipeObject(title, slug, savedAt, servings, servingsCount, flowGroups,
                history) :
     title \in ExportTitles,
     slug \in {None, Some(JsString(<<>>)), Some(JsString(SlugAB))},
     savedAt \in {None, Some(JsString(<<"1970-01-01T00:00:00.002Z">>))},
     servings \in {None, Some(JsNumber(2))},
     servingsCount \in {None, Some(JsNumber(4))},
     flowGroups \in FlowGroupInputs,
     history \in PlainHistoryInputs \cup ImageHistoryInputs}

\* Files that were not written by the export: what the recipe-data script
\* holds, and how the file is put together around it.
FileTitleInputs ==
  {None, Some(JsNull), Some(JsString(<<>>)), Some(JsString(TextPlain)),
   Some(JsString(TextQuoted))}
FileFlowGroupInputs ==
  {None, Some(JsNull), Some(JsString(TextPlain)), Some(JsObject(<<>>)),
   Some(JsArray(<<>>)),
   Some(JsArray(<<GroupObject(TRUE, <<StepObject(TextPlain)>>)>>))}
FileValues ==
  {JsNull, JsString(TextPlain), JsNumber(4), JsArray(<<>>)}
    \cup {JsObject(Optional("title", title) \o Optional("flowGroups", flowGroups)
                   \o Optional("slug", slug)) :
            title \in FileTitleInputs, flowGroups \in FileFlowGroupInputs,
            slug \in {None, Some(JsString(SlugAB))}}

Wrappers == {"script", "no script", "other script", "unclosed", "cut", "empty"}

FileHtml(wrapper, value) ==
  LET json == Stringify(value)
  IN CASE wrapper = "script" ->
            <<"<title>", "a", "</title>", OpenTag, " ">> \o json \o <<"\n", CloseTag>>
       [] wrapper = "no script" -> <<"<title>", "a", "</title>">> \o json
       [] wrapper = "other script" -> <<OtherOpenTag>> \o json \o <<CloseTag>>
       [] wrapper = "unclosed" -> <<OpenTag>> \o json
       [] wrapper = "cut" ->
            <<OpenTag>> \o SubSeq(json, 1, Len(json) - 1) \o <<"\n", CloseTag>>
       [] wrapper = "empty" -> <<OpenTag, "\n", " ", CloseTag>>

\* ---------------------------------------------------------- export and import
\* The recipe on screen, before Export HTML is pressed
RecipeShown(recipe) ==
  [fn |-> "recipe", recipe |-> recipe, wrapper |-> "export", html |-> <<>>,
   filename |-> <<>>, result |-> None]

\* A file picked in the import dialog
FilePicked(wrapper, value) ==
  [fn |-> "file", recipe |-> value, wrapper |-> wrapper,
   html |-> FileHtml(wrapper, value), filename |-> <<>>, result |-> None]

InitHtml ==
  /\ localStorage = AbsentStorage
  /\ clock = 1
  /\ exported = None
  /\ edited = FALSE
  /\ last = NoCall
  /\ tabs = NoTabs
  /\ wakeLock = NoHook
  /\ evaluation \in {RecipeShown(recipe) : recipe \in ExportInputs}
                      \cup {FilePicked(w, v) : w \in Wrappers, v \in FileValues}

\* RecipeExport.handleExport: the document and its file name, or nothing
\* when generateRecipeHtml throws
handleExport ==
  /\ evaluation.fn = "recipe"
  /\ evaluation' =
       IF StepsThrow(evaluation.recipe)
       THEN [evaluation EXCEPT !.fn = "handleExport threw"]
       ELSE [evaluation EXCEPT
               !.fn = "handleExport",
               !.html = generateRecipeHtml(evaluation.recipe),
               !.filename = generateExportFilename(evaluation.recipe)]
  /\ UNCHANGED <<localStorage, clock, exported, edited, last, tabs, wakeLock>>

\* RecipeImportButton.handleFileChange on one file: an exported one, or one
\* from elsewhere
handleFileChange ==
  /\ evaluation.fn \in {"handleExport", "file"}
  /\ evaluation' = [evaluation EXCEPT
                      !.fn = "handleFileChange",
                      !.result = parseRecipeFromHtml(evaluation.html)]
  /\ UNCHANGED <<localStorage, clock, exported, edited, last, tabs, wakeLock>>

\* ------------------------------------------------------------ the visible page
\* Texts a recipe can carry: plain, markup, the characters escapeHtml
\* replaces, and a closing script tag followed by markup.
TextMarkup == <<"<", "b", ">">>
TextSpecial == <<"&", Quote, "'">>
TextBreakOut == <<CloseTag, "<", "b", ">">>
VisualTexts == {TextPlain, TextMarkup, TextSpecial, TextBreakOut}

VisualSteps ==
  {Step(stepNumber, type, instruction, ingredients, timerMinutes) :
     stepNumber \in {JsNumber(1), JsString(TextMarkup)},
     type \in {<<"prep">>, <<"cook">>, TextMarkup},
     instruction \in VisualTexts,
     ingredients \in {<<>>, <<TextPlain, TextMarkup>>, <<TextBreakOut>>},
     timerMinutes \in {JsNumber(0), JsNumber(5)}}

VisualInputs ==
  {RecipeObject(title, None, None, servings, None, flowGroups, None) :
     title \in VisualTexts,
     servings \in {None, Some(JsNumber(2)), Some(JsString(TextMarkup))},
     flowGroups \in {<<>>} \cup {<<GroupObject(parallel, <<step>>)>> :
                                  parallel \in BOOLEAN, step \in VisualSteps}}

InitVisual ==
  /\ localStorage = AbsentStorage
  /\ clock = 1
  /\ exported = None
  /\ edited = FALSE
  /\ last = NoCall
  /\ tabs = NoTabs
  /\ wakeLock = NoHook
  /\ evaluation \in {RecipeShown(recipe) : recipe \in VisualInputs}

\* -------------------------------------------------------------------- slugs
\* Titles: upper and lower case letters, a digit, whitespace, a hyphen and
\* punctuation, in every arrangement up to MaxTitle characters.
TitleCharacters == {"A", "b", "1", " ", "-", "!"}
SlugTitleInputs == UNION {[1..n -> TitleCharacters] : n \in 0..MaxTitle}

TitleGiven(title) == [fn |-> "title", title |-> title, slug |-> <<>>]

InitSlug ==
  /\ localStorage = AbsentStorage
  /\ clock = 1
  /\ exported = None
  /\ edited = FALSE
  /\ last = NoCall
  /\ tabs = NoTabs
  /\ wakeLock = NoHook
  /\ evaluation \in {TitleGiven(title) : title \in SlugTitleInputs}

\* const slug = recipe.slug || generateSlug(recipe.title), for a recipe
\* without slug
assignSlug ==
  /\ evaluation.fn = "title"
  /\ evaluation' = [evaluation EXCEPT !.fn = "generateSlug",
                                      !.slug = generateSlug(evaluation.title)]
  /\ UNCHANGED <<localStorage, clock, exported, edited, last, tabs, wakeLock>>

\* ------------------------------------------------------------- archive export
\* filename.replace('.html', ''): the first '.html' is taken out
RECURSIVE RemoveFirst(_, _)
RemoveFirst(name, tok) ==
  IF name = <<>> THEN <<>>
  ELSE IF Head(name) = tok THEN Tail(name)
       ELSE <<Head(name)>> \o RemoveFirst(Tail(name), tok)

\* `${baseName}-${counter}.html`
Numbered(baseName, counter) ==
  baseName \o <<Hyphen, NumberToken(counter), ".html">>

\* Variant: a used name always becomes `${baseName}-2.html`.
UniqueFilenameSecond(usedFilenames, filename) ==
  IF filename \in usedFilenames
  THEN Numbered(RemoveFirst(filename, ".html"), 2)
  ELSE filename

\* The name a recipe is filed under: its own, or with the first counter from
\* 2 up that gives a name not in use
UniqueFilename(usedFilenames, filename) ==
  IF filename \in usedFilenames
  THEN LET baseName == RemoveFirst(filename, ".html")
           counter ==
             CHOOSE c \in 2..(Cardinality(usedFilenames) + 2) :
               /\ Numbered(baseName, c) \notin usedFilenames
               /\ \A d \in 2..(c - 1) : Numbered(baseName, d) \in usedFilenames
       IN Numbered(baseName, counter)
  ELSE filename

\* zip.file(filename, html): the entry of that name is set
ZipFile(zip, filename, html) ==
  IF \E i \in DOMAIN zip : zip[i][1] = filename
  THEN [i \in DOMAIN zip |->
          IF zip[i][1] = filename THEN <<filename, html>> ELSE zip[i]]
  ELSE Append(zip, <<filename, html>>)

\* The loop over recipes: the archive, and the name chosen for each recipe
RECURSIVE exportAllRecipesToZip(_, _, _, _)
exportAllRecipesToZip(recipes, zip, usedFilenames, names) ==
  IF recipes = <<>> THEN [zip |-> zip, names |-> names]
  ELSE LET filename ==
             UniqueFilename(usedFilenames, generateExportFilename(Head(recipes)))
       IN exportAllRecipesToZip(
            Tail(recipes),
            ZipFile(zip, filename, generateRecipeHtml(Head(recipes))),
            usedFilenames \cup {filename},
            Append(names, filename))

SlugA == <<"a">>
SlugA2 == <<"a", "-", "2">>
SlugDotHtml == <<".html", "a">>
ZipRecipeInputs ==
  {RecipeObject(title, slug, None, None, None, <<>>, None) :
     title \in {TextPlain, TextQuoted},
     slug \in {Some(JsString(SlugA)), Some(JsString(SlugA2))}}
     \cup {RecipeObject(TextPlain, None, None, None, None, <<>>, None),
           RecipeObject(TextPlain, Some(JsString(SlugDotHtml)), None, None, None,
                        <<>>, None)}
ZipInputs == UNION {[1..n -> ZipRecipeInputs] : n \in 0..MaxZip}

RecipesGiven(recipes) ==
  [fn |-> "recipes", recipes |-> recipes, zip |-> <<>>, names |-> <<>>]

InitZip ==
  /\ localStorage = AbsentStorage
  /\ clock = 1
  /\ exported = None
  /\ edited = FALSE
  /\ last = NoCall
  /\ tabs = NoTabs
  /\ wakeLock = NoHook
  /\ evaluation \in {RecipesGiven(recipes) : recipes \in ZipInputs}

downloadAllRecipesAsZip ==
  /\ evaluation.fn = "recipes"
  /\ LET out == exportAllRecipesToZip(evaluation.recipes, <<>>, {}, <<>>)
     IN evaluation' = [evaluation EXCEPT !.fn = "exportAllRecipesToZip",
                                         !.zip = out.zip,
                                         !.names = out.names]
  /\ UNCHANGED <<localStorage, clock, exported, edited, last, tabs, wakeLock>>

\* ------------------------------------------------------- objects by reference
\* Objects and arrays live in a heap and are passed by reference: the heap
\* maps the addresses in use to the objects and arrays at them, and what an
\* object or array holds is primitive values and references.
JsRef(address) == [JsValue("ref") EXCEPT !.n = address]

\* A new object or array: it gets an address that is not in use
NextFree(heap) ==
  IF DOMAIN heap = {} THEN 1
  ELSE (CHOOSE a \in DOMAIN heap : \A b \in DOMAIN heap : b <= a) + 1

Allocated(heap, cell) ==
  LET address == NextFree(heap)
  IN [heap |-> [a \in DOMAIN heap \cup {address} |->
                  IF a = address THEN cell ELSE heap[a]],
      value |-> JsRef(address)]

\* A value written out as a literal: the object or array at address holds its
\* primitive members, and its i-th nested object or array sits at Within
Within(address, i) == address * 10 + i
Held(value, address) ==
  IF value.t \in {"array", "object"} THEN JsRef(address) ELSE value

RECURSIVE Cells(_, _)
Cells(value, address) ==
  CASE value.t = "array" ->
         {<<address, JsArray([i \in 1..Len(value.items) |->
                                Held(value.items[i], Within(address, i))])>>}
           \cup UNION {Cells(value.items[i], Within(address, i)) :
                         i \in 1..Len(value.items)}
    [] value.t = "object" ->
         {<<address, JsObject([i \in 1..Len(value.fields) |->
                                 <<value.fields[i][1],
                                   Held(value.fields[i][2], Within(address, i))>>])>>}
           \cup UNION {Cells(value.fields[i][2], Within(address, i)) :
                         i \in 1..Len(value.fields)}
    [] OTHER -> {}

Store(value) ==
  LET cells == Cells(value, 1)
  IN [heap |-> [a \in {c[1] : c \in cells} |->
                  (CHOOSE c \in cells : c[1] = a)[2]],
      value |-> Held(value, 1)]

\* What a reference shows when it is read all the way down
RECURSIVE Load(_, _)
Load(heap, value) ==
  IF value.t # "ref" THEN value
  ELSE LET cell == heap[value.n]
       IN IF cell.t = "array"
          THEN JsArray([i \in 1..Len(cell.items) |-> Load(heap, cell.items[i])])
          ELSE JsObject([i \in 1..Len(cell.fields) |->
                           <<cell.fields[i][1], Load(heap, cell.fields[i][2])>>])

\* Variant: the image entry itself is overwritten with the placeholder.
StripContentInPlace(heap, content) ==
  IF Lookup(heap[content.n].fields, Key("type")) = Some(JsString(<<"image">>))
  THEN [heap |-> [heap EXCEPT ![content.n] = ImagePlaceholder], value |-> content]
  ELSE [heap |-> heap, value |-> content]

\* content.type === 'image' ? { type: 'image', text: '[image]' } : content
StripContentIn(heap, content) ==
  IF Lookup(heap[content.n].fields, Key("type")) = Some(JsString(<<"image">>))
  THEN Allocated(heap, ImagePlaceholder)
  ELSE [heap |-> heap, value |-> content]

\* message.content.map(...): the callback runs on each entry in turn
RECURSIVE MapStripContent(_, _, _)
MapStripContent(heap, items, acc) ==
  IF items = <<>> THEN [heap |-> heap, values |-> acc]
  ELSE LET r == StripContentIn(heap, Head(items))
       IN MapStripContent(r.heap, Tail(items), Append(acc, r.value))

\* one message: returned as it is, or { ...message, content: strippedContent }
StripMessageIn(heap, message) ==
  LET content == Lookup(heap[message.n].fields, Key("content"))[1]
  IN IF content.t = "string" THEN [heap |-> heap, value |-> message]
     ELSE LET r == MapStripContent(heap, heap[content.n].items, <<>>)
              strippedContent == Allocated(r.heap, JsArray(r.values))
          IN Allocated(strippedContent.heap,
                       SetField(strippedContent.heap[message.n], Key("content"),
                                strippedContent.value))

RECURSIVE MapStripMessage(_, _, _)
MapStripMessage(heap, items, acc) ==
  IF items = <<>> THEN [heap |-> heap, values |-> acc]
  ELSE LET r == StripMessageIn(heap, Head(items))
       IN MapStripMessage(r.heap, Tail(items), Append(acc, r.value))

\* messages.map(...) returns a new array
stripImagesFromConversationIn(heap, messages) ==
  LET r == MapStripMessage(heap, heap[messages.n].items, <<>>)
  IN Allocated(r.heap, JsArray(r.values))

\* recipe itself, or { ...recipe, conversationHistory: stripped }
prepareRecipeForExportIn(heap, recipe) ==
  LET history == Lookup(heap[recipe.n].fields, Key("conversationHistory"))
  IN IF history = None THEN [heap |-> heap, value |-> recipe]
     ELSE LET stripped == stripImagesFromConversationIn(heap, history[1])
          IN Allocated(stripped.heap,
                       SetField(stripped.heap[recipe.n], Key("conversationHistory"),
                                stripped.value))

\* generateRecipeHtml: prepareRecipeForExport allocates, generateStepsHtml,
\* JSON.stringify and the template only read
generateRecipeHtmlIn(heap, recipe) ==
  [heap |-> prepareRecipeForExportIn(heap, recipe).heap,
   value |-> JsString(generateRecipeHtml(Load(heap, recipe)))]

\* Conversations: no history, an empty one, and one or two messages whose
\* content is a string or a list of text and image entries.
HeapContentInputs ==
  {JsString(TextPlain),
   JsArray(<<>>),
   JsArray(<<TextContent(TextPlain)>>),
   JsArray(<<ImageContent("QUJD", "image/png")>>),
   JsArray(<<TextContent(TextPlain), ImageContent("REVG", "image/jpeg")>>),
   JsArray(<<ImageContent("QUJD", "image/png"), ImageContent("REVG", "image/png")>>)}
HeapHistoryInputs ==
  {None, Some(JsArray(<<>>))}
    \cup {Some(JsArray(<<MessageObject("user", c)>>)) : c \in HeapContentInputs}
    \cup {Some(JsArray(<<MessageObject("user", c), MessageObject("assistant", d)>>)) :
            c \in HeapContentInputs, d \in HeapContentInputs}
HeapInputs ==
  {RecipeObject(title, None, None, None, None, flowGroups, history) :
     title \in {TitleA, TextClosing},
     flowGroups \in {<<>>, <<GroupObject(TRUE, <<StepObject(TextPlain)>>)>>},
     history \in HeapHistoryInputs}

\* The caller holds a recipe object
RecipeHeld(recipe) ==
  LET stored == Store(recipe)
  IN [fn |-> "recipe held", before |-> stored.heap, heap |-> stored.heap,
      recipe |-> stored.value, result |-> JsNull]

InitHeap ==
  /\ localStorage = AbsentStorage
  /\ clock = 1
  /\ exported = None
  /\ edited = FALSE
  /\ last = NoCall
  /\ tabs = NoTabs
  /\ wakeLock = NoHook
  /\ evaluation \in {RecipeHeld(recipe) : recipe \in HeapInputs}

\* prepareRecipeForExport(recipe) on the held object
prepareCalled ==
  /\ evaluation.fn = "recipe held"
  /\ LET r == prepareRecipeForExportIn(evaluation.heap, evaluation.recipe)
     IN evaluation' = [evaluation EXCEPT !.fn = "prepareRecipeForExport",
                                         !.heap = r.heap, !.result = r.value]
  /\ UNCHANGED <<localStorage, clock, exported, edited, last, tabs, wakeLock>>

\* generateRecipeHtml(recipe) on the held object
generateCalled ==
  /\ evaluation.fn = "recipe held"
  /\ LET r == generateRecipeHtmlIn(evaluation.heap, evaluation.recipe)
     IN evaluation' = [evaluation EXCEPT !.fn = "generateRecipeHtml",
                                         !.heap = r.heap, !.result = r.value]
  /\ UNCHANGED <<localStorage, clock, exported, edited, last, tabs, wakeLock>>

\* ------------------------------------------------------------ stored raw value
\* Texts under the storage key that hold no recipes: the empty string, blank
\* and malformed texts, JSON values that are not arrays, and the empty array.
RawTexts ==
  {<<>>, <<" ">>, <<"a">>, <<"{">>, <<"[">>, <<"[", "1", ",">>,
   <<"[", "]", "]">>, <<"undefined">>, <<Quote, "a">>,
   <<"null">>, <<"0">>, <<"1">>, <<"true">>, <<"false">>,
   <<Quote, Quote>>, <<Quote, "a", Quote>>, <<"{", "}">>,
   <<"{", Quote, "a", Quote, ":", "[", "]", "}">>,
   <<"[", "]">>, <<" ", "[", "]", "\n">>}

\* Someone else writes the key: an older version, another script of the
\* origin, the user in the developer tools.
storageWritten(text) ==
  /\ Idle
  /\ evaluation = NoEvaluation
  /\ localStorage' = StoredText(text)
  /\ UNCHANGED <<clock, exported, edited, last, evaluation, tabs, wakeLock>>

\* useRecipes.refresh, first half: getSavedRecipes() is called
refresh ==
  /\ Idle
  /\ evaluation = NoEvaluation
  /\ \E outcome \in getSavedRecipesCall(localStorage) :
       evaluation' = [fn |-> "getSavedRecipes", stored |-> localStorage,
                      outcome |-> outcome]
  /\ UNCHANGED <<localStorage, clock, exported, edited, last, tabs, wakeLock>>

\* useRecipes.refresh, second half: setRecipes(...) takes the array
setRecipes ==
  /\ evaluation # NoEvaluation
  /\ evaluation.outcome.status = "return"
  /\ evaluation' = NoEvaluation
  /\ UNCHANGED <<localStorage, clock, exported, edited, last, tabs, wakeLock>>

\* ------------------------------------------------------------------ two tabs
\* Two tabs of the origin share the storage key.  A storage call in a tab is
\* a read of the key (getSavedRecipes) and, later, a write of the array the
\* call computed from what it read (setItem); nothing keeps the other tab
\* from reading or writing in between.
Tabs == {1, 2}

TabCall(op, recipe, slug, updates) ==
  [op |-> op, recipe |-> recipe, slug |-> slug, updates |-> updates]

TabIdle ==
  [pc |-> "idle", call |-> TabCall("none", None, None, NoUpdates),
   read |-> AbsentStorage, writes |-> FALSE, recipes |-> <<>>]

TwoTabs == [writer |-> 0, tab |-> [t \in Tabs |-> TabIdle]]

TabCallInputs ==
  {TabCall("saveRecipe", Some(Recipe(title, None, None)), None, NoUpdates) :
     title \in Titles}
    \cup {TabCall("deleteRecipe", None, Some(slug), NoUpdates) : slug \in Slugs}
    \cup {TabCall("updateRecipe", None, Some(slug),
                  [NoUpdates EXCEPT !.title = Some(TitleC)]) : slug \in Slugs}
    \cup {TabCall("importRecipe", Some(recipe), None, NoUpdates) :
            recipe \in {Recipe(TitleA, None, Some(toISOString(MaxClock + 1))),
                        Recipe(TitleC, None, None)}}

\* What the call does with the array it read: whether it reaches setItem, and
\* the array it hands to it
PendingWrite(call, recipes, now) ==
  CASE call.op = "saveRecipe" ->
         [writes |-> TRUE, recipes |-> saveRecipeOn(recipes, call.recipe[1], now)]
    [] call.op = "deleteRecipe" ->
         [writes |-> TRUE, recipes |-> deleteRecipeOn(recipes, call.slug[1])]
    [] call.op = "updateRecipe" ->
         IF findIndex(recipes, call.slug[1]) < 1
         THEN [writes |-> FALSE, recipes |-> recipes]
         ELSE [writes |-> TRUE,
               recipes |-> updateRecipeOn(recipes, call.slug[1], call.updates, now)]
    [] call.op = "importRecipe" ->
         [writes |-> importRecipeOn(recipes, call.recipe[1]).wrote,
          recipes |-> importRecipeOn(recipes, call.recipe[1]).recipes]

\* Variant: the write step reads the key again and redoes the call on what is
\* stored now.
WriteStepRereads(storage, pending) ==
  LET recipes == CHOOSE r \in getSavedRecipes(storage) : TRUE
      redone == PendingWrite(pending.call, recipes, clock)
  IN IF redone.writes THEN setItem(redone.recipes) ELSE storage

\* localStorage.setItem(RECIPES_STORAGE_KEY, JSON.stringify(recipes)), with
\* the array computed from the earlier read
WriteStep(storage, pending) ==
  IF pending.writes THEN setItem(pending.recipes) ELSE storage

InitTabs ==
  /\ localStorage = AbsentStorage
  /\ clock = 1
  /\ exported = None
  /\ edited = FALSE
  /\ last = NoCall
  /\ evaluation = NoEvaluation
  /\ tabs = TwoTabs
  /\ wakeLock = NoHook

\* const recipes = getSavedRecipes(), and the computation up to setItem
readStep(t, call) ==
  /\ tabs.tab[t].pc = "idle"
  /\ \E recipes \in getSavedRecipes(localStorage) :
       LET pending == PendingWrite(call, recipes, clock)
       IN /\ Len(pending.recipes) <= MaxStored
          /\ tabs' = [tabs EXCEPT !.tab[t] =
                        [pc |-> "read", call |-> call, read |-> localStorage,
                         writes |-> pending.writes, recipes |-> pending.recipes]]
  /\ UNCHANGED <<localStorage, clock, exported, edited, last, evaluation, wakeLock>>

\* setItem, and the call returns to the tab's code
writeStep(t) ==
  /\ tabs.tab[t].pc = "read"
  /\ localStorage' = WriteStep(localStorage, tabs.tab[t])
  /\ tabs' = [tabs EXCEPT !.tab[t].pc = "done",
                          !.writer = IF tabs.tab[t].writes THEN t ELSE @]
  /\ UNCHANGED <<clock, exported, edited, last, evaluation, wakeLock>>

\* The tab is ready for its next call
nextCall(t) ==
  /\ tabs.tab[t].pc = "done"
  /\ tabs' = [tabs EXCEPT !.tab[t] = TabIdle]
  /\ UNCHANGED <<localStorage, clock, exported, edited, last, evaluation, wakeLock>>

\* ---------------------------------------------------------------- useWakeLock
\* One component using the hook.  wakeLock holds the hook's state (isSupported,
\* isEnabled, wakeLockRef.current), the value of isEnabled its effects last ran
\* with (rendered), the promises in flight (requests: navigator.wakeLock.request
\* calls awaited by requestWakeLock; releases: release() calls awaited by
\* releaseWakeLock), and the browser's side: the sentinels 1..obtained it
\* handed out, which of them are released, and document.visibilityState.
MaxSentinels == 3
MaxPending == 2

\* const requestWakeLock = useCallback(async () => { ... up to the await
requestWakeLock(hook) ==
  IF ~hook.isSupported THEN hook ELSE [hook EXCEPT !.requests = @ + 1]

\* const releaseWakeLock = useCallback(async () => { ... up to the await
releaseWakeLock(hook) ==
  IF hook.current # 0
  THEN [hook EXCEPT !.released = @ \cup {hook.current}, !.releases = @ + 1]
  ELSE hook

\* useEffect(() => { if (isEnabled) requestWakeLock(); else releaseWakeLock(); })
enabledEffect(hook) ==
  IF ~hook.isSupported THEN hook
  ELSE IF hook.isEnabled THEN requestWakeLock(hook) ELSE releaseWakeLock(hook)

\* The hook after its first render and its mount effects
useWakeLock(isSupported, defaultEnabled) ==
  LET isEnabled == IF isSupported THEN defaultEnabled ELSE FALSE
  IN enabledEffect(
       [mounted |-> TRUE, isSupported |-> isSupported, isEnabled |-> isEnabled,
        rendered |-> isEnabled, current |-> 0, requests |-> 0, releases |-> 0,
        obtained |-> 0, released |-> {}, visible |-> TRUE, disabled |-> FALSE])

\* Neither count of promises in flight is above the bound.
WithinPending(hook) == hook.requests <= MaxPending /\ hook.releases <= MaxPending

InitWakeLock ==
  /\ localStorage = AbsentStorage
  /\ clock = 1
  /\ exported = None
  /\ edited = FALSE
  /\ last = NoCall
  /\ evaluation = NoEvaluation
  /\ tabs = NoTabs
  /\ wakeLock \in {useWakeLock(isSupported, defaultEnabled) :
                     isSupported \in BOOLEAN, defaultEnabled \in BOOLEAN}

\* setIsEnabled(value), behind the early return of enable, disable and toggle
setIsEnabled(hook, value) ==
  IF ~hook.isSupported THEN hook
  ELSE [hook EXCEPT !.isEnabled = value, !.disabled = @ \/ ~value]

\* const enable = useCallback(() => { ... }), called on a mounted component
enable ==
  /\ wakeLock.mounted
  /\ wakeLock' = setIsEnabled(wakeLock, TRUE)
  /\ UNCHANGED <<localStorage, clock, exported, edited, last, evaluation, tabs>>

\* const disable = useCallback(() => { ... })
disable ==
  /\ wakeLock.mounted
  /\ wakeLock' = setIsEnabled(wakeLock, FALSE)
  /\ UNCHANGED <<localStorage, clock, exported, edited, last, evaluation, tabs>>

\* const toggle = useCallback(() => { ... setIsEnabled((prev) => !prev) })
toggle ==
  /\ wakeLock.mounted
  /\ wakeLock' = setIsEnabled(wakeLock, ~wakeLock.isEnabled)
  /\ UNCHANGED <<localStorage, clock, exported, edited, last, evaluation, tabs>>

\* React renders the component with the new isEnabled and runs the effects
\* that depend on it: the request or release, and the listener is replaced by
\* one that closes over the new isEnabled
render ==
  /\ wakeLock.mounted
  /\ wakeLock.isEnabled # wakeLock.rendered
  /\ wakeLock' = enabledEffect([wakeLock EXCEPT !.rendered = wakeLock.isEnabled])
  /\ WithinPending(wakeLock')
  /\ UNCHANGED <<localStorage, clock, exported, edited, last, evaluation, tabs>>

\* The page is hidden or shown again.  The browser releases the screen wake
\* locks of a page that becomes hidden; handleVisibilityChange runs if the
\* listener is registered, with the isEnabled of the render that registered it
visibilitychange ==
  LET visible == ~wakeLock.visible
      browser == [wakeLock EXCEPT !.visible = visible,
                                  !.released = IF visible THEN @ ELSE 1..wakeLock.obtained]
  IN /\ wakeLock' = IF browser.mounted /\ browser.isSupported /\ visible /\ browser.rendered
                    THEN requestWakeLock(browser)
                    ELSE browser
     /\ WithinPending(wakeLock')
     /\ UNCHANGED <<localStorage, clock, exported, edited, last, evaluation, tabs>>

\* navigator.wakeLock.request resolves (only a visible page is given a screen
\* wake lock): wakeLockRef.current = the new sentinel
requestResolved ==
  /\ wakeLock.requests > 0
  /\ wakeLock.visible
  /\ wakeLock.obtained < MaxSentinels
  /\ wakeLock' = [wakeLock EXCEPT !.requests = @ - 1,
                                  !.obtained = @ + 1,
                                  !.current = wakeLock.obtained + 1]
  /\ UNCHANGED <<localStorage, clock, exported, edited, last, evaluation, tabs>>

\* navigator.wakeLock.request rejects: catch { }
requestRejected ==
  /\ wakeLock.requests > 0
  /\ wakeLock' = [wakeLock EXCEPT !.requests = @ - 1]
  /\ UNCHANGED <<localStorage, clock, exported, edited, last, evaluation, tabs>>

\* release() settles, resolved or rejected: wakeLockRef.current = null
releaseSettled ==
  /\ wakeLock.releases > 0
  /\ wakeLock' = [wakeLock EXCEPT !.releases = @ - 1, !.current = 0]
  /\ UNCHANGED <<localStorage, clock, exported, edited, last, evaluation, tabs>>

\* The component unmounts: the listener is removed, the cleanup calls
\* releaseWakeLock()
unmount ==
  /\ wakeLock.mounted
  /\ wakeLock' = releaseWakeLock([wakeLock EXCEPT !.mounted = FALSE])
  /\ WithinPending(wakeLock')
  /\ UNCHANGED <<localStorage, clock, exported, edited, last, evaluation, tabs>>

\* ------------------------------------------------------------ specifications
\* The collection is kept to at most n entries.
Fits(n) == StoredCount(localStorage') <= n

\* Every storage operation, batches included, on a small collection.
Next ==
  \/ Tick
  \/ Return
  \/ \E recipe \in SaveInputs : saveRecipe(recipe) /\ Fits(MaxStored)
  \/ \E slug \in Slugs : deleteRecipe(slug)
  \/ \E slug \in Slugs, updates \in UpdateInputs : updateRecipe(slug, updates)
  \/ \E recipe \in RecipeInputs : importRecipe(recipe) /\ Fits(MaxStored)
  \/ \E batch \in BatchInputs : previewImport(batch)
  \/ \E batch \in BatchInputs : importRecipes(batch) /\ Fits(MaxStored)

Spec == Init /\ [][Next]_vars

\* The single-recipe operations on a larger collection.
NextWide ==
  \/ Tick
  \/ Return
  \/ \E recipe \in SaveInputs : saveRecipe(recipe) /\ Fits(MaxStoredWide)
  \/ \E slug \in Slugs : deleteRecipe(slug)
  \/ \E slug \in Slugs, updates \in UpdateInputs : updateRecipe(slug, updates)
  \/ \E recipe \in RecipeInputs : importRecipe(recipe) /\ Fits(MaxStoredWide)

SpecWide == Init /\ [][NextWide]_vars

\* The single-recipe operations together with exporting a stored recipe and
\* importing the exported file again.
NextExport ==
  \/ Tick
  \/ Return
  \/ \E recipe \in SaveInputs : saveRecipe(recipe) /\ Fits(MaxStored)
  \/ \E slug \in Slugs : deleteRecipe(slug)
  \/ \E slug \in Slugs, updates \in UpdateInputs : updateRecipe(slug, updates)
  \/ \E recipe \in RecipeInputs : importRecipe(recipe) /\ Fits(MaxStored)
  \/ \E slug \in Slugs : exportRecipe(slug)
  \/ exported # None /\ importRecipe(exported[1])
  \/ exported # None /\ importRecipes(<<exported[1]>>)

SpecExport == Init /\ [][NextExport]_vars

\* Exporting a recipe to an HTML file and reading recipes from HTML files.
NextHtml ==
  \/ handleExport
  \/ handleFileChange

SpecHtml == InitHtml /\ [][NextHtml]_vars

\* Slugs generated from titles.
NextSlug == assignSlug

SpecSlug == InitSlug /\ [][NextSlug]_vars

\* Exporting a list of recipes as one archive.
NextZip == downloadAllRecipesAsZip

SpecZip == InitZip /\ [][NextZip]_vars

\* The stored value is read, saved to and deleted from while other writers
\* leave texts that hold no recipes.
NextStored ==
  \/ Return
  \/ \E text \in RawTexts : storageWritten(text)
  \/ refresh
  \/ setRecipes
  \/ \E recipe \in SaveInputs :
       evaluation = NoEvaluation /\ saveRecipe(recipe) /\ Fits(MaxStored)
  \/ \E slug \in Slugs : evaluation = NoEvaluation /\ deleteRecipe(slug)

SpecStored == Init /\ [][NextStored]_vars

\* Export functions called on a recipe object the caller keeps.
NextHeap ==
  \/ prepareCalled
  \/ generateCalled

SpecHeap == InitHeap /\ [][NextHeap]_vars

\* Exporting recipes whose texts carry markup.
NextVisual == handleExport

SpecVisual == InitVisual /\ [][NextVisual]_vars

\* Two tabs, each running storage calls as a read step and a write step.
NextTabs ==
  \/ \E t \in Tabs, call \in TabCallInputs : readStep(t, call)
  \/ \E t \in Tabs : writeStep(t)
  \/ \E t \in Tabs : nextCall(t)

SpecTabs == InitTabs /\ [][NextTabs]_vars

\* One component using useWakeLock, the user, the page's visibility and the
\* browser settling the hook's promises.
NextWakeLock ==
  \/ enable
  \/ disable
  \/ toggle
  \/ render
  \/ visibilitychange
  \/ requestResolved
  \/ requestRejected
  \/ releaseSettled
  \/ unmount

SpecWakeLock == InitWakeLock /\ [][NextWakeLock]_vars

\* ---------------------------------------------------------------- properties
Range(seq) == {seq[i] : i \in DOMAIN seq}
Count(seq, x) == Cardinality({i \in DOMAIN seq : seq[i] = x})
Indicator(b) == IF b THEN 1 ELSE 0

\* a <= b on numbers: false as soon as one side is NaN
NumAtMost(a, b) == ~a.nan /\ ~b.nan /\ a.v <= b.v

\* As collections of entries (order aside), after is before with these
\* entries taken out and those put in.
Exchanged(before, after, out, in) ==
  \A x \in Range(before) \cup Range(after) \cup Range(out) \cup Range(in) :
    Count(after, x) = Count(before, x) - Count(out, x) + Count(in, x)

StoredNow == localStorage.recipes
StoredBefore == last.before.recipes
HasSlug(recipes, slug) == \E x \in Range(recipes) : x.slug = Some(slug)

\* The entry an import of r is expected to store: r under its resolved slug,
\* with the savedAt r carries (the epoch when it carries none).
ExpectedImport(r) ==
  [title |-> r.title, slug |-> Some(ResolveSlug(r)),
   savedAt |-> IF r.savedAt = None THEN Some(toISOString(0)) ELSE r.savedAt]

\* C1: importRecipe(r) onto an entry with the same slug and a strictly older
\* savedAt returns 'updated'; the entry becomes r with r's own savedAt, the
\* number of entries is unchanged and so is every other entry.
C1_ImportNewerUpdates ==
  (/\ last.op = "importRecipe"
   /\ last.existing # None
   /\ NumGreater(TimeOf(last.recipe[1]), TimeOf(last.existing[1])))
  => /\ last.action = "updated"
     /\ Len(StoredNow) = Len(StoredBefore)
     /\ ExpectedImport(last.recipe[1]) \in Range(StoredNow)
     /\ Exchanged(StoredBefore, StoredNow, last.existing,
                  <<ExpectedImport(last.recipe[1])>>)

C1_Witness ==
  /\ last.op = "importRecipe"
  /\ last.action = "updated"
  /\ last.recipe[1].savedAt = Some(toISOString(MaxClock + 1))
  /\ last.recipe[1].title # last.existing[1].title
  /\ Len(StoredBefore) = 2

\* C2: importRecipe(r) onto an entry with the same slug whose savedAt is later
\* than or equal to r's returns 'skipped' and leaves the stored value as it was.
C2_ImportOlderOrEqualSkips ==
  (/\ last.op = "importRecipe"
   /\ last.existing # None
   /\ NumAtMost(TimeOf(last.recipe[1]), TimeOf(last.existing[1])))
  => /\ last.action = "skipped"
     /\ localStorage = last.before

C2_Witness ==
  /\ last.op = "importRecipe"
  /\ last.action = "skipped"
  /\ last.existing # None
  /\ TimeOf(last.recipe[1]) = TimeOf(last.existing[1])
  /\ last.recipe[1].title # last.existing[1].title
  /\ localStorage = last.before

\* C3: importRecipe(r) with no stored entry of r's slug returns 'added'; the
\* collection gains exactly one entry, with that slug and the savedAt r
\* carried, and every entry stored before is still there unchanged.
C3_ImportNewAdds ==
  (/\ last.op = "importRecipe"
   /\ ~HasSlug(StoredBefore, ResolveSlug(last.recipe[1])))
  => /\ last.action = "added"
     /\ Len(StoredNow) = Len(StoredBefore) + 1
     /\ \E e \in Range(StoredNow) :
          /\ e.slug = Some(ResolveSlug(last.recipe[1]))
          /\ e.title = last.recipe[1].title
          /\ last.recipe[1].savedAt # None => e.savedAt = last.recipe[1].savedAt
          /\ Exchanged(StoredBefore, StoredNow, <<>>, <<e>>)

C3_Witness ==
  /\ last.op = "importRecipe"
  /\ last.action = "added"
  /\ Len(StoredBefore) = 1
  /\ last.recipe[1].savedAt = Some(toISOString(0))
  /\ last.now > 0

\* A savedAt that Date can parse
RealDate(r) == r.savedAt # None /\ r.savedAt[1].form # "invalid"

\* C4: importRecipe(r) for r without savedAt returns 'skipped' whenever an
\* entry with r's slug and a real date is stored, and returns 'added' with
\* savedAt 1970-01-01T00:00:00.000Z when no entry has r's slug.
C4_MissingSavedAtLoses ==
  (last.op = "importRecipe" /\ last.recipe[1].savedAt = None)
  => /\ (last.existing # None /\ RealDate(last.existing[1]))
          => last.action = "skipped"
     /\ last.existing = None
          => /\ last.action = "added"
             /\ \E e \in Range(StoredNow) :
                  /\ e.slug = Some(ResolveSlug(last.recipe[1]))
                  /\ e.savedAt = Some(EpochString)

\* C5: once a stored recipe was exported and then saved or updated locally,
\* importing the exported copy (alone or as a batch) reports 'skipped' and
\* leaves the stored value as it was.
C5_ImportNeverClobbersLocalEdit ==
  (edited /\ exported # None)
  => /\ (last.op = "importRecipe" /\ last.recipe = exported)
          => (last.action = "skipped" /\ localStorage = last.before)
     /\ (last.op = "importRecipes" /\ last.batch = <<exported[1]>>)
          => (last.result.skipped = last.batch /\ localStorage = last.before)

\* C6: previewImport(batch) leaves the stored value exactly as it was.
C6_PreviewLeavesStorage ==
  last.op = "previewImport" => localStorage = last.before

C6_Witness ==
  /\ last.op = "previewImport"
  /\ last.result.added # <<>>
  /\ last.result.updated # <<>>
  /\ localStorage = last.before

\* C7: the buckets importRecipes(batch) returns are the buckets
\* previewImport(batch) returns on the stored value importRecipes started from.
C7_PreviewMatchesCommit ==
  last.op = "importRecipes"
  => \A existingRecipes \in getSavedRecipes(last.before) :
       previewImportOn(existingRecipes, last.batch, EmptyResult) = last.result

\* The entries of batch at the positions f sends to bucket, in input order
RECURSIVE Picked(_, _, _, _)
Picked(batch, f, bucket, i) ==
  IF i > Len(batch) THEN <<>>
  ELSE (IF f[i] = bucket THEN <<batch[i]>> ELSE <<>>)
         \o Picked(batch, f, bucket, i + 1)

Buckets == {"added", "updated", "skipped"}

\* C8: importRecipes(batch) puts every input recipe in exactly one bucket, in
\* input order; afterwards every resolved slug of the batch is stored and
\* every entry whose slug is not in the batch is unchanged.
C8_ImportRecipesPartitionsBatch ==
  last.op = "importRecipes"
  => /\ Len(last.result.added) + Len(last.result.updated)
          + Len(last.result.skipped) = Len(last.batch)
     /\ \E f \in [DOMAIN last.batch -> Buckets] :
          \A b \in Buckets : last.result[b] = Picked(last.batch, f, b, 1)
     /\ \A r \in Range(last.batch) : HasSlug(StoredNow, ResolveSlug(r))
     /\ \A x \in Range(StoredBefore) \cup Range(StoredNow) :
          (\A r \in Range(last.batch) : x.slug # Some(ResolveSlug(r)))
            => Count(StoredNow, x) = Count(StoredBefore, x)

C8_Witness ==
  /\ last.op = "importRecipes"
  /\ Len(last.batch) = 2
  /\ Len(last.result.added) = 1
  /\ Len(last.result.skipped) = 1
  /\ Len(StoredNow) = 2

\* C9: no two stored entries have the same slug.
C9_SlugsUnique ==
  \A i, j \in DOMAIN StoredNow :
    StoredNow[i].slug = StoredNow[j].slug => i = j

C11_DeleteRemovesOnlySlug ==
  last.op = "deleteRecipe"
  => LET slug == last.slug[1]
     IN /\ getRecipeBySlug(localStorage, slug) = {None}
        /\ \A x \in Range(StoredBefore) \cup Range(StoredNow) :
             Count(StoredNow, x) =
               IF x.slug = Some(slug) THEN 0 ELSE Count(StoredBefore, x)
        /\ ~HasSlug(StoredBefore, slug)
             => getSavedRecipes(localStorage) = getSavedRecipes(last.before)

C11_Witness ==
  /\ last.op = "deleteRecipe"
  /\ last.existing # None
  /\ Len(StoredBefore) = 2
  /\ Len(StoredNow) = 1
  /\ ~HasSlug(StoredNow, last.slug[1])

\* C12: updateRecipe(slug, updates) on a slug that is not stored returns null
\* and leaves the stored value as it was; on a stored slug it returns the old
\* entry with the fields of updates laid over it and savedAt set to the
\* current time, and the collection is the old one with that value in the
\* place of the old entry.
C12_UpdateMergesAndStamps ==
  last.op = "updateRecipe"
  => IF ~HasSlug(StoredBefore, last.slug[1])
     THEN last.returned = None /\ localStorage = last.before
     ELSE /\ last.existing # None
          /\ last.existing[1].slug = last.slug
          /\ last.existing[1] \in Range(StoredBefore)
          /\ last.returned # None
          /\ last.returned[1].title =
               (IF last.updates.title = None
                THEN last.existing[1].title ELSE last.updates.title[1])
          /\ last.returned[1].slug =
               (IF last.updates.slug = None
                THEN last.existing[1].slug ELSE last.updates.slug)
          /\ last.returned[1].savedAt = Some(toISOString(last.now))
          /\ Len(StoredNow) = Len(StoredBefore)
          /\ Exchanged(StoredBefore, StoredNow, last.existing, last.returned)

C12_Witness ==
  /\ last.op = "updateRecipe"
  /\ last.existing # None
  /\ last.updates.title # None
  /\ last.updates.title[1] # last.existing[1].title
  /\ last.updates.savedAt # None
  /\ last.updates.savedAt # last.returned[1].savedAt
  /\ Len(StoredNow) = 2

\* The time the sort is meant to order by: the parsed savedAt, and the epoch
\* for an entry whose savedAt is missing or cannot be parsed.
OrderingTime(r) ==
  IF r.savedAt = None \/ r.savedAt[1].form = "invalid" THEN 0
  ELSE r.savedAt[1].ms

\* C13: whatever is stored, getSavedRecipes returns the entries newest first:
\* no entry is followed by one with a later savedAt.
C13_SortedBySavedAtDescending ==
  \A recipes \in getSavedRecipes(localStorage) :
    \A i \in 1..(Len(recipes) - 1) :
      OrderingTime(recipes[i]) >= OrderingTime(recipes[i + 1])

\* The content of message i of the conversation history (a string or an array)
HistoryOf(recipe) ==
  LET history == Get(recipe, Key("conversationHistory"))
  IN IF history = None THEN <<>> ELSE history[1].items
ContentOf(recipe, i) == Get(HistoryOf(recipe)[i], Key("content"))[1]
IsImage(content) == Get(content, Key("type")) = Some(JsString(<<"image">>))

\* <<i, j>>: entry j of message i is an image
ImagePositions(recipe) ==
  UNION {{<<i, j>> : j \in {k \in 1..Len(ContentOf(recipe, i).items) :
                              IsImage(ContentOf(recipe, i).items[k])}} :
           i \in 1..Len(HistoryOf(recipe))}

\* recipe with every image entry carrying this payload and mimeType instead
ReplaceImages(recipe, image, mimeType) ==
  IF Get(recipe, Key("conversationHistory")) = None THEN recipe
  ELSE SetField(recipe, Key("conversationHistory"),
         JsArray([i \in 1..Len(HistoryOf(recipe)) |->
           IF ContentOf(recipe, i).t = "string" THEN HistoryOf(recipe)[i]
           ELSE SetField(HistoryOf(recipe)[i], Key("content"),
                  JsArray([j \in 1..Len(ContentOf(recipe, i).items) |->
                    IF IsImage(ContentOf(recipe, i).items[j])
                    THEN ImageContent(image, mimeType)
                    ELSE ContentOf(recipe, i).items[j]]))]))

\* C14: a recipe with a non-empty title and no image in its conversation
\* history, exported by generateRecipeHtml and read back by
\* parseRecipeFromHtml, comes back non-null and equal to itself in every field.
C14_ExportRoundTrip ==
  (/\ evaluation.fn = "handleFileChange"
   /\ evaluation.wrapper = "export"
   /\ ImagePositions(evaluation.recipe) = {})
  => evaluation.result = Returns(evaluation.recipe)

HasTitle(value) ==
  Get(value, Key("title")) \notin {None, Some(JsNull), Some(JsString(<<>>))}
HasFlowGroupsArray(value) ==
  /\ Get(value, Key("flowGroups")) # None
  /\ Get(value, Key("flowGroups"))[1].t = "array"

\* C16: parseRecipeFromHtml never throws; it returns null when the file has
\* no recipe-data script element, when the script does not hold valid JSON,
\* when the parsed value has no title or an empty one, and when its
\* flowGroups is not an array; otherwise it returns the parsed value as it is.
C16_ParseRejectsOrReturns ==
  evaluation.fn = "handleFileChange"
  => /\ evaluation.result.status = "return"
     /\ evaluation.wrapper # "export"
          => evaluation.result.value =
               (IF /\ evaluation.wrapper = "script"
                   /\ HasTitle(evaluation.recipe)
                   /\ HasFlowGroupsArray(evaluation.recipe)
                THEN Some(evaluation.recipe)
                ELSE None)

C16_Witness ==
  /\ evaluation.fn = "handleFileChange"
  /\ evaluation.wrapper = "script"
  /\ HasTitle(evaluation.recipe)
  /\ ~HasFlowGroupsArray(evaluation.recipe)
  /\ evaluation.result = ReturnsNull

\* C17: the export file name is the recipe's slug followed by '.html' when
\* the recipe has a slug, and generateSlug of its title followed by '.html'
\* otherwise (stated for the titles written character by character).
C17_FilenameCarriesSlug ==
  (/\ evaluation.fn = "handleExport"
   /\ Get(evaluation.recipe, Key("title"))[1].s \in {TitleA, TitleC})
  => LET slug == Get(evaluation.recipe, Key("slug"))
         title == Get(evaluation.recipe, Key("title"))[1].s
     IN evaluation.filename =
          (IF slug # None /\ slug[1].s # <<>>
           THEN slug[1].s
           ELSE generateSlug(title)) \o <<".html">>

\* No two whitespace characters next to each other
SingleSpaced(title) ==
  \A i \in 1..(Len(title) - 1) :
    ~(title[i] \in WhiteSpace /\ title[i + 1] \in WhiteSpace)

\* C17, amended: the export file name ends in '.html'; before that it is the
\* recipe's slug when the recipe has one, and otherwise the title, character
\* by character, in lower case with a hyphen for each whitespace (any other
\* character is kept).
C17_FilenameFromSlugOrLowerTitle ==
  (/\ evaluation.fn = "handleExport"
   /\ SingleSpaced(Get(evaluation.recipe, Key("title"))[1].s))
  => LET slug == Get(evaluation.recipe, Key("slug"))
         title == Get(evaluation.recipe, Key("title"))[1].s
         name == evaluation.filename
         stem == SubSeq(name, 1, Len(name) - 1)
     IN /\ name # <<>>
        /\ name[Len(name)] = ".html"
        /\ IF slug # None /\ slug[1].s # <<>>
           THEN stem = slug[1].s
           ELSE /\ Len(stem) = Len(title)
                /\ \A i \in 1..Len(title) :
                     stem[i] = IF title[i] \in WhiteSpace THEN Hyphen
                               ELSE toLowerCase(title[i])

C17_Witness ==
  /\ evaluation.fn = "handleExport"
  /\ Get(evaluation.recipe, Key("slug")) = None
  /\ Get(evaluation.recipe, Key("title"))[1].s = TitleC
  /\ evaluation.filename = <<"c", "!", ".html">>

\* C18: generateSlug(title) is made of characters in [a-z0-9-] only, has no
\* two hyphens in a row, and neither starts nor ends with a hyphen.
C18_SlugWellFormed ==
  evaluation.fn = "generateSlug"
  => LET slug == evaluation.slug
     IN /\ \A i \in DOMAIN slug :
             slug[i] \in LowerCase \cup Digits \cup {Hyphen}
        /\ \A i \in 1..(Len(slug) - 1) :
             ~(slug[i] = Hyphen /\ slug[i + 1] = Hyphen)
        /\ slug # <<>> => (slug[1] # Hyphen /\ slug[Len(slug)] # Hyphen)

\* The archive entry filed under name, <<>> when there is none
EntryNamed(zip, name) ==
  IF \E i \in DOMAIN zip : zip[i][1] = name
  THEN Some((CHOOSE e \in Range(zip) : e[1] = name)[2])
  ELSE None

\* f.html with -c put before the extension
Suffixed(filename, c) ==
  SubSeq(filename, 1, Len(filename) - 1) \o <<Hyphen, NumberToken(c), ".html">>

\* name is the first of f-2.html, f-3.html, ... that is not among taken
FirstFree(name, filename, taken) ==
  \E c \in 2..(Cardinality(taken) + 2) :
    /\ name = Suffixed(filename, c)
    /\ name \notin taken
    /\ \A d \in 2..(c - 1) : Suffixed(filename, d) \in taken

NamesBefore(i) == {evaluation.names[j] : j \in 1..(i - 1)}

\* filename without its first '.html', then -c.html
SuffixedAtFirst(filename, c) ==
  LET k == CHOOSE i \in DOMAIN filename :
             filename[i] = ".html" /\ \A j \in 1..(i - 1) : filename[j] # ".html"
  IN SubSeq(filename, 1, k - 1) \o SubSeq(filename, k + 1, Len(filename))
       \o <<Hyphen, NumberToken(c), ".html">>

\* name is the first of the names numbered 2, 3, ... that is not among taken
FirstFreeAtFirst(name, filename, taken) ==
  \E c \in 2..(Cardinality(taken) + 2) :
    /\ name = SuffixedAtFirst(filename, c)
    /\ name \notin taken
    /\ \A d \in 2..(c - 1) : SuffixedAtFirst(filename, d) \in taken

\* C19: among the recipes of the input that share one export file name
\* f.html, the first is stored as f.html and each later one under the first
\* free name of f-2.html, f-3.html, ...; every recipe's entry holds
\* generateRecipeHtml of that recipe.
C19_SharedNamesSuffixed ==
  evaluation.fn = "exportAllRecipesToZip"
  => \A i \in DOMAIN evaluation.recipes :
       LET f == generateExportFilename(evaluation.recipes[i])
           sharing == {j \in DOMAIN evaluation.recipes :
                         generateExportFilename(evaluation.recipes[j]) = f}
       IN /\ EntryNamed(evaluation.zip, evaluation.names[i])
               = Some(generateRecipeHtml(evaluation.recipes[i]))
          /\ Cardinality(sharing) >= 2
               => IF \A j \in sharing : i <= j
                  THEN evaluation.names[i] = f
                  ELSE FirstFree(evaluation.names[i], f, NamesBefore(i))

\* C19, amended: a recipe whose export file name is not yet the name of an
\* entry is stored under it, any other under the first free name numbered
\* -2, -3, ... (the number goes where the name's first '.html' was, with
\* '.html' put at the end); every recipe's entry holds generateRecipeHtml of
\* that recipe.
C19_UsedNamesSuffixed ==
  evaluation.fn = "exportAllRecipesToZip"
  => /\ Len(evaluation.names) = Len(evaluation.recipes)
     /\ \A i \in DOMAIN evaluation.recipes :
          LET f == generateExportFilename(evaluation.recipes[i])
          IN /\ EntryNamed(evaluation.zip, evaluation.names[i])
                  = Some(generateRecipeHtml(evaluation.recipes[i]))
             /\ IF f \notin NamesBefore(i)
                THEN evaluation.names[i] = f
                ELSE FirstFreeAtFirst(evaluation.names[i], f, NamesBefore(i))

C19_Witness ==
  /\ evaluation.fn = "exportAllRecipesToZip"
  /\ Len(evaluation.recipes) = 3
  /\ evaluation.names = <<SlugA \o <<".html">>, Suffixed(SlugA \o <<".html">>, 2),
                          Suffixed(SlugA \o <<".html">>, 3)>>
  /\ evaluation.recipes[1] # evaluation.recipes[2]

\* The outcome of an import when a missing or unparseable savedAt counts as
\* the epoch on both sides
EpochAction(existing, recipe) ==
  IF existing = None THEN "added"
  ELSE IF OrderingTime(recipe) > OrderingTime(existing[1]) THEN "updated"
       ELSE "skipped"

\* C20: importRecipe returns, and previewImport chooses, what they would with
\* every unparseable savedAt replaced by 1970-01-01T00:00:00.000Z; so a recipe
\* with a valid later date imported over an entry whose savedAt is
\* unparseable is 'updated'.
C20_UnparseableCountsAsEpoch ==
  /\ last.op = "importRecipe"
       => last.action = EpochAction(last.existing, last.recipe[1])
  /\ last.op = "previewImport"
       => \E existingRecipes \in getSavedRecipes(last.before) :
            LET f == [i \in DOMAIN last.batch |->
                        EpochAction(find(existingRecipes,
                                         ResolveSlug(last.batch[i])),
                                    last.batch[i])]
            IN \A b \in Buckets : last.result[b] = Picked(last.batch, f, b, 1)

\* Calling importRecipe on each recipe of batch in input order, each call on
\* the storage the previous one left: the final storage and the action of
\* every call.
RECURSIVE ImportOneByOne(_, _)
ImportOneByOne(storage, batch) ==
  IF batch = <<>>
  THEN {[storage |-> storage, actions |-> <<>>]}
  ELSE UNION {{[storage |-> p.storage, actions |-> <<o.action>> \o p.actions] :
                 p \in ImportOneByOne(o.storage, Tail(batch))} :
                o \in importRecipeOutcomes(storage, Head(batch))}

\* i and j are the first and the second place of one slug in batch
FirstAndSecond(batch, i, j) ==
  /\ i < j
  /\ ResolveSlug(batch[i]) = ResolveSlug(batch[j])
  /\ \A k \in 1..(j - 1) :
       k # i => ResolveSlug(batch[k]) # ResolveSlug(batch[i])

\* C21: importRecipes(batch) is the in-order fold of importRecipe: its buckets
\* and the storage it leaves are those of calling importRecipe on each recipe
\* in input order, each call seeing the storage left by the previous ones.
\* So of two batch recipes with one slug that is not stored, the first is
\* 'added' and the second is 'updated' when its savedAt time is strictly
\* greater than the first's and 'skipped' otherwise.
C21_ImportRecipesIsFold ==
  last.op = "importRecipes"
  => /\ \E p \in ImportOneByOne(last.before, last.batch) :
          /\ localStorage = p.storage
          /\ \A b \in Buckets : last.result[b] = Picked(last.batch, p.actions, b, 1)
     /\ \A i, j \in DOMAIN last.batch :
          (/\ FirstAndSecond(last.batch, i, j)
           /\ ~HasSlug(StoredBefore, ResolveSlug(last.batch[i])))
          => \E f \in [DOMAIN last.batch -> Buckets] :
               /\ \A b \in Buckets : last.result[b] = Picked(last.batch, f, b, 1)
               /\ f[i] = "added"
               /\ f[j] = IF NumGreater(TimeOf(last.batch[j]), TimeOf(last.batch[i]))
                         THEN "updated"
                         ELSE "skipped"

C21_Witness ==
  /\ last.op = "importRecipes"
  /\ Len(last.batch) = 2
  /\ ResolveSlug(last.batch[1]) = ResolveSlug(last.batch[2])
  /\ ~HasSlug(StoredBefore, ResolveSlug(last.batch[1]))
  /\ last.result.added = <<last.batch[1]>>
  /\ last.result.updated = <<last.batch[2]>>
  /\ Len(StoredBefore) = 1
  /\ Len(StoredNow) = 2

\* A text that JSON.parse rejects or turns into something that is no array
NotAJsonArray(text) ==
  \/ JSONparse(text).status = "throw"
  \/ JSONparse(text).value[1].t # "array"

\* C22: getSavedRecipes() never throws; it returns the empty sequence when the
\* storage key is absent and when the stored value cannot be parsed as a JSON
\* array, and it leaves the stored raw value as it was.
C22_GetSavedRecipesNeverThrows ==
  evaluation.fn = "getSavedRecipes"
  => /\ evaluation.outcome.status = "return"
     /\ (\/ evaluation.stored.kind = "absent"
         \/ /\ evaluation.stored.kind = "text"
            /\ NotAJsonArray(evaluation.stored.text))
        => evaluation.outcome.value = Some(<<>>)
     /\ localStorage = evaluation.stored

C22_Witness ==
  /\ evaluation.fn = "getSavedRecipes"
  /\ evaluation.stored = StoredText(<<"{", "}">>)
  /\ JSONparse(evaluation.stored.text).status = "return"
  /\ evaluation.outcome = Returns(<<>>)
  /\ localStorage = evaluation.stored

\* The image entries of the recipe the caller holds, as they were written
HeldImages(heap, recipe) ==
  LET history == Get(Load(heap, recipe), Key("conversationHistory"))
  IN IF history = None THEN <<>>
     ELSE [i \in 1..Len(history[1].items) |->
             LET content == Get(history[1].items[i], Key("content"))[1]
             IN IF content.t = "string" THEN <<>>
                ELSE SelectSeq(content.items, IsImage)]

\* C23: image stripping does not mutate its input: after
\* prepareRecipeForExport(recipe) or generateRecipeHtml(recipe) every object
\* and array that existed before the call is as it was, so the recipe passed
\* in reads the same, with every image entry of its conversationHistory and
\* their image and mimeType fields.
C23_StrippingLeavesInput ==
  evaluation.fn \in {"prepareRecipeForExport", "generateRecipeHtml"}
  => /\ \A a \in DOMAIN evaluation.before :
          /\ a \in DOMAIN evaluation.heap
          /\ evaluation.heap[a] = evaluation.before[a]
     /\ Load(evaluation.heap, evaluation.recipe)
          = Load(evaluation.before, evaluation.recipe)
     /\ HeldImages(evaluation.heap, evaluation.recipe)
          = HeldImages(evaluation.before, evaluation.recipe)

C23_Witness ==
  /\ evaluation.fn = "prepareRecipeForExport"
  /\ evaluation.result # evaluation.recipe
  /\ DOMAIN evaluation.heap # DOMAIN evaluation.before
  /\ \E i \in DOMAIN HeldImages(evaluation.heap, evaluation.recipe) :
       Len(HeldImages(evaluation.heap, evaluation.recipe)[i]) = 2
  /\ Load(evaluation.heap, evaluation.result)
       # Load(evaluation.heap, evaluation.recipe)

\* The heap functions compute what the value functions compute.
HeapAgreesWithValues ==
  evaluation.fn = "prepareRecipeForExport"
  => Load(evaluation.heap, evaluation.result)
       = prepareRecipeForExport(Load(evaluation.before, evaluation.recipe))

\* text with & < > " ' (and the tags made of them) as character references
Entity(c) ==
  CASE c = "&" -> "&amp;"
    [] c = "<" -> "&lt;"
    [] c = ">" -> "&gt;"
    [] c = Quote -> "&quot;"
    [] c = "'" -> "&#39;"
    [] c = CloseTag -> "&lt;/script&gt;"
    [] OTHER -> c
Entities(text) == [i \in 1..Len(text) |-> Entity(text[i])]

\* The characters that make markup, as they stand
RawSpecial == {"&", "<", ">", Quote, "'", CloseTag, OpenTag, OtherOpenTag}

Contains(html, part) ==
  \E i \in 1..(Len(html) - Len(part) + 1) :
    SubSeq(html, i, i + Len(part) - 1) = part

\* The document without its recipe-data script element, which a browser ends
\* at the first closing script tag
OutsideScript(html) ==
  LET open == IndexFrom(html, OpenTag, 1)
      close == IndexFrom(html, CloseTag, open + 1)
  IN SubSeq(html, 1, open - 1) \o SubSeq(html, close + 1, Len(html))

StepsOf(recipe) ==
  LET groups == Get(recipe, Key("flowGroups"))[1].items
  IN {Get(groups[i], Key("steps"))[1].items[1] : i \in 1..Len(groups)}

\* C24: in the document generateRecipeHtml produces, the title (in <title> and
\* <h1>), the servings, and each step's number, type, timer minutes,
\* instruction and ingredients appear with & < > " ' replaced by their
\* entities, so that outside the recipe-data script element no user-supplied
\* text stands as markup.
C24_VisualTextEscaped ==
  evaluation.fn = "handleExport"
  => LET recipe == evaluation.recipe
         html == evaluation.html
         title == Get(recipe, Key("title"))[1].s
         servings == Get(recipe, Key("servings"))
     IN /\ Contains(html, <<"<title>">> \o Entities(title) \o <<"</title>">>)
        /\ Contains(html, <<"<h1>">> \o Entities(title) \o <<"</h1>">>)
        /\ servings # None
             => Contains(html, <<"<div class=servings>">>
                                 \o Entities(String(servings[1])) \o <<"</div>">>)
        /\ \A step \in StepsOf(recipe) :
             /\ Contains(html, Entities(String(Get(step, Key("stepNumber"))[1]))
                                 \o <<"</div>", "<span class=type style=">>)
             /\ Contains(html, Entities(Get(step, Key("type"))[1].s) \o <<"</span>">>)
             /\ Get(step, Key("timerMinutes"))[1].n > 0
                  => Contains(html, <<"<span class=timer>">>
                                      \o Entities(String(Get(step, Key("timerMinutes"))[1]))
                                      \o <<" min", "</span>">>)
             /\ Contains(html, <<"<p>">>
                                 \o Entities(Get(step, Key("instruction"))[1].s)
                                 \o <<"</p>">>)
             /\ \A i \in 1..Len(Get(step, Key("ingredients"))[1].items) :
                  Contains(html, <<"<span class=ingredient>">>
                                   \o Entities(Get(step, Key("ingredients"))[1].items[i].s)
                                   \o <<"</span>">>)
        /\ \A i \in 1..Len(OutsideScript(html)) :
             OutsideScript(html)[i] \notin RawSpecial

\* The same, for recipes none of whose texts holds a closing script tag
VisualTextEscapedWithoutClosingTag ==
  (evaluation.fn = "handleExport"
     /\ ~Contains(Stringify(evaluation.recipe), <<CloseTag>>))
  => C24_VisualTextEscaped

Other(t) == CHOOSE u \in Tabs : u # t
TabSlug(t) == ResolveSlug(tabs.tab[t].call.recipe[1])

\* Both tabs finished a saveRecipe, for different slugs, that started from
\* the same stored value
TwoSavesFromOneRead ==
  /\ \A t \in Tabs : tabs.tab[t].pc = "done" /\ tabs.tab[t].call.op = "saveRecipe"
  /\ TabSlug(1) # TabSlug(2)
  /\ tabs.tab[1].read = tabs.tab[2].read
  /\ tabs.writer \in Tabs

\* C25: two tabs run their storage writes as a read step and a write step
\* with nothing between them and the other tab.  Whatever the other tab wrote
\* in between, a tab's write step stores the array it computed from its own
\* read (the last writer wins, without any error); so after two saveRecipe
\* calls for different slugs that both read the same stored value, the
\* collection holds the last writer's recipe only and the other save is lost.
C25_LastWriterWins ==
  /\ \A t \in Tabs :
       (tabs.writer = t /\ tabs.tab[t].pc = "done" /\ tabs.tab[t].writes)
       => localStorage = setItem(tabs.tab[t].recipes)
  /\ TwoSavesFromOneRead
     => \A t \in Tabs :
          (tabs.writer = t /\ ~HasSlug(tabs.tab[t].read.recipes, TabSlug(Other(t))))
          => /\ HasSlug(StoredNow, TabSlug(t))
             /\ ~HasSlug(StoredNow, TabSlug(Other(t)))

C25_Witness ==
  /\ TwoSavesFromOneRead
  /\ tabs.tab[1].read = AbsentStorage
  /\ tabs.writer = 2
  /\ Len(StoredNow) = 1
  /\ HasSlug(StoredNow, TabSlug(2))
  /\ ~HasSlug(StoredNow, TabSlug(1))

\* ---------------------------------------------------------------- useWakeLock
\* The sentinels the hook obtained that nobody released.
Unreleased == (1..wakeLock.obtained) \ wakeLock.released

\* No request and no release is in flight.
PromisesSettled == wakeLock.requests = 0 /\ wakeLock.releases = 0

\* C26: where the Wake Lock API is supported, once disable() (or a toggle to
\* off) has been called, the component has rendered with isEnabled false and
\* every pending request and release promise has settled, every sentinel the
\* hook obtained has been released.
C26_DisabledReleasesAll ==
  ( /\ wakeLock.isSupported
    /\ wakeLock.mounted
    /\ wakeLock.disabled
    /\ ~wakeLock.isEnabled
    /\ ~wakeLock.rendered
    /\ PromisesSettled )
  => Unreleased = {}

\* C27: where the Wake Lock API is supported, after the component has
\* unmounted and every pending promise has settled, no sentinel the hook
\* obtained remains unreleased.
C27_UnmountReleasesAll ==
  ( /\ wakeLock.isSupported
    /\ ~wakeLock.mounted
    /\ PromisesSettled )
  => Unreleased = {}

\* ------------------------------------------------------- import, run again
\* What importRecipes(batch) can return and leave when it runs on storage.
SecondRun(storage, batch) == importRecipesOutcomes(storage, batch, EmptyResult)

\* Every recipe of batch is reported as skipped, in input order.
AllSkipped(batch) == [added |-> <<>>, updated |-> <<>>, skipped |-> batch]

\* C28: import is idempotent: importRecipes(batch) run a second time right
\* after the first reports every recipe of the batch as 'skipped' and leaves
\* the stored collection exactly as the first run left it.
C28_ImportIdempotent ==
  last.op = "importRecipes"
  => \A o \in SecondRun(localStorage, last.batch) :
       /\ o.result = AllSkipped(last.batch)
       /\ o.storage = localStorage

\* A first run that added one recipe and updated another, then ran again.
C28_Witness ==
  /\ last.op = "importRecipes"
  /\ last.result.added # <<>>
  /\ last.result.updated # <<>>
  /\ localStorage # last.before
  /\ AllSkipped(last.batch) \in {o.result : o \in SecondRun(localStorage, last.batch)}

\* ------------------------------------------------------ import, other order
\* The entries of a stored collection, whatever their order.
StoredEntries(storage) == {storage.recipes[i] : i \in DOMAIN storage.recipes}

\* importRecipe(a) has just run on last.before; b is imported next, and the
\* other way round b is imported into last.before and a after it: both orders
\* leave the same entries.
SameEitherOrder(a, b) ==
  \A p \in importRecipeOutcomes(localStorage, b) :
    \A q \in ImportOneByOne(last.before, <<b, a>>) :
      StoredEntries(p.storage) = StoredEntries(q.storage)

\* Neither of two recipes of one slug has the strictly greater savedAt time.
Tie(a, b) ==
  /\ ResolveSlug(a) = ResolveSlug(b)
  /\ ~NumGreater(TimeOf(ImportedRecipe(a)), TimeOf(ImportedRecipe(b)))
  /\ ~NumGreater(TimeOf(ImportedRecipe(b)), TimeOf(ImportedRecipe(a)))

OneEntryPerSlug(recipes) ==
  \A i, j \in DOMAIN recipes : recipes[i].slug = recipes[j].slug => i = j

C30_ZipNamesDistinct ==
  evaluation.fn = "exportAllRecipesToZip"
  => /\ Len(evaluation.names) = Len(evaluation.recipes)
     /\ \A i, j \in DOMAIN evaluation.names :
          evaluation.names[i] = evaluation.names[j] => i = j
     /\ Len(evaluation.zip) = Len(evaluation.recipes)
     /\ \A i \in DOMAIN evaluation.recipes :
          evaluation.zip[i]
            = <<evaluation.names[i], generateRecipeHtml(evaluation.recipes[i])>>
     /\ evaluation.recipes = <<>> => evaluation.zip = <<>>

\* The slugs 'a', 'a', 'a-2' in this order: the third recipe's own name is the
\* one the second was given.
C30_Witness ==
  /\ evaluation.fn = "exportAllRecipesToZip"
  /\ Len(evaluation.recipes) = 3
  /\ generateExportFilename(evaluation.recipes[1]) = SlugA \o <<".html">>
  /\ generateExportFilename(evaluation.recipes[2]) = SlugA \o <<".html">>
  /\ generateExportFilename(evaluation.recipes[3]) = SlugA2 \o <<".html">>
  /\ evaluation.names[2] = generateExportFilename(evaluation.recipes[3])
  /\ Len(evaluation.zip) = 3

====
